---- MODULE Spec2Model ----
(***************************************************************************)
(* File client tool (xiebaoma/mytool): the interactive session of          *)
(* FileClient over the root-confined SPDB_SDKFileSystem backend.           *)
(*                                                                         *)
(* Program strings that the code inspects character by character (paths,   *)
(* command lines, tokens) are sequences of one-character strings; file     *)
(* contents are sequences of byte values 0..255; CommandResult messages    *)
(* are strings built with \o exactly as the code concatenates them.        *)
(***************************************************************************)
EXTENDS Naturals, Integers, Sequences, FiniteSets, TLC

VARIABLES
    root_path_,     \* backend: absolute root path, always ending with '/'
    current_path_,  \* backend: current virtual directory
    fs,             \* the real file tree below the operating system root
    pc,             \* position of run_interactive: "prompt", "executed",
                    \* "printed", "stopped", "aborted"
    input,          \* run_interactive: the line read by std::getline
    result,         \* run_interactive: the CommandResult of execute_command
    accessed,       \* real paths handed to the storage layer by the last command
    calls,          \* backend operations invoked by the last command
    err_out,        \* what the last loop iteration wrote to std::cerr
    std_out,        \* what the last loop iteration wrote to std::cout
    raw,            \* function harnesses: the raw string or buffer under test
    out             \* function harnesses: results computed so far

vars == <<root_path_, current_path_, fs, pc, input, result,
          accessed, calls, err_out, std_out, raw, out>>

-----------------------------------------------------------------------------
(* Bounds of the model *)

MaxPathLen == 4     \* longest raw path argument typed by the user
MaxNormLen == 6     \* longest raw string fed to the path functions alone
MaxBufLen == 4      \* longest short buffer fed to is_text_file alone
MaxTailLen == 3     \* most bytes that follow the filling of a long buffer
MaxDumpLen == 17    \* most bytes handed to the render loop of hexdump alone
MaxOpenFds == 2     \* most descriptors followed while they stay open
MaxSizeExp == 5     \* sizes handed to format_file_size alone: up to m * 1024^5
MaxStdinLines == 3  \* most lines standard input holds when it is a given stream

-----------------------------------------------------------------------------
(* Strings *)

PathChars == {"/", ".", "a", "b"}

RECURSIVE Str(_)
\* the std::string spelled by a sequence of characters
Str(s) == IF s = <<>> THEN "" ELSE s[1] \o Str(Tail(s))

\* all character sequences over cs of length at most n
StringsUpTo(cs, n) == UNION {[1..k -> cs] : k \in 0..n}

\* index of the first occurrence of a character of cs in s, 0 when absent
FindFirstOf(s, cs) ==
    IF \E i \in 1..Len(s) : s[i] \in cs
    THEN CHOOSE i \in 1..Len(s) : s[i] \in cs /\ \A j \in 1..(i - 1) : s[j] \notin cs
    ELSE 0

RECURSIVE GetlineSplit(_, _)
\* the components std::getline(ss, component, sep) yields until it fails:
\* the pieces between separators, a final empty piece is never produced
GetlineSplit(s, sep) ==
    IF s = <<>> THEN <<>>
    ELSE LET i == FindFirstOf(s, {sep})
         IN IF i = 0 THEN <<s>>
            ELSE <<SubSeq(s, 1, i - 1)>> \o GetlineSplit(SubSeq(s, i + 1, Len(s)), sep)

RECURSIVE JoinWith(_, _)
\* components joined with sep between consecutive ones
JoinWith(comps, sep) ==
    IF comps = <<>> THEN <<>>
    ELSE IF Len(comps) = 1 THEN comps[1]
    ELSE comps[1] \o <<sep>> \o JoinWith(Tail(comps), sep)

-----------------------------------------------------------------------------
(* Path resolver of the backend *)

\* one iteration of the loop of normalize_path on component c
\* variant: ".." is kept as a name
NormalizeStep_KeepsDotDot(acc, c) ==
    IF c = <<>> \/ c = <<".">> THEN acc ELSE Append(acc, c)

\* variant: the else of the ".." branch is missing, ".." pops and is pushed
NormalizeStep_PopsThenPushes(acc, c) ==
    IF c = <<>> \/ c = <<".">> THEN acc
    ELSE Append(IF c = <<".", ".">> /\ acc # <<>>
                THEN SubSeq(acc, 1, Len(acc) - 1) ELSE acc, c)

\* variant: "." is kept as a name
NormalizeStep_KeepsDot(acc, c) ==
    IF c = <<>> THEN acc
    ELSE IF c = <<".", ".">>
         THEN (IF acc # <<>> THEN SubSeq(acc, 1, Len(acc) - 1) ELSE acc)
         ELSE Append(acc, c)

NormalizeStep(acc, c) ==
    IF c = <<>> \/ c = <<".">> THEN acc
    ELSE IF c = <<".", ".">>
         THEN (IF acc # <<>> THEN SubSeq(acc, 1, Len(acc) - 1) ELSE acc)
         ELSE Append(acc, c)

RECURSIVE NormalizeFold(_, _)
NormalizeFold(comps, acc) ==
    IF comps = <<>> THEN acc
    ELSE NormalizeFold(Tail(comps), NormalizeStep(acc, comps[1]))

normalize_path(path) ==
    IF path = <<>> THEN <<"/">>
    ELSE <<"/">> \o JoinWith(NormalizeFold(GetlineSplit(path, "/"), <<>>), "/")

\* variant: an absolute argument is joined to the current directory too
resolve_path_AlwaysJoins(path) ==
    IF path = <<>> THEN current_path_
    ELSE normalize_path((IF current_path_ # <<"/">> THEN current_path_ \o <<"/">>
                         ELSE current_path_) \o path)

resolve_path(path) ==
    IF path = <<>> THEN current_path_
    ELSE IF path[1] = "/" THEN normalize_path(path)
    ELSE normalize_path((IF current_path_ # <<"/">> THEN current_path_ \o <<"/">>
                         ELSE current_path_) \o path)

is_safe_path(path) ==
    LET normalized == normalize_path(path)
    IN normalized # <<>> /\ normalized[1] = "/"

is_trying_to_escape_root(path) == ~is_safe_path(resolve_path(path))

get_full_path(path) ==
    LET normalized == normalize_path(path)
    IN IF normalized = <<>> THEN root_path_ \o Tail(current_path_)
       ELSE IF normalized[1] = "/" THEN root_path_ \o Tail(normalized)
       ELSE root_path_ \o Tail(normalize_path(
                (IF current_path_ # <<"/">> THEN current_path_ \o <<"/">>
                 ELSE current_path_) \o normalized))

-----------------------------------------------------------------------------
(* Storage layer below the backend (spdb::sdk::file::stat, open, file_size, *)
(* pread, opendir, readdir): fs maps the canonical location of every node, *)
(* a sequence of names from the top of the real tree, to                   *)
(* [kind, content, size].                                                  *)

RECURSIVE PosixSplit(_)
\* every piece of a path between '/' characters, empty pieces included
PosixSplit(s) ==
    LET i == FindFirstOf(s, {"/"})
    IN IF i = 0 THEN <<s>>
       ELSE <<SubSeq(s, 1, i - 1)>> \o PosixSplit(SubSeq(s, i + 1, Len(s)))

Missing == [found |-> FALSE, at |-> <<>>]

RECURSIVE Walk(_, _)
\* path resolution from the existing node at: every component is looked up
\* in a directory, ".." is the parent, "." and the empty component stay, and
\* a symbolic link is replaced by the node its content names
Walk(comps, at) ==
    IF comps = <<>> THEN [found |-> TRUE, at |-> at]
    ELSE IF fs[at].kind # "dir" THEN Missing
    ELSE LET c == comps[1]
         IN IF c = <<>> \/ c = <<".">> THEN Walk(Tail(comps), at)
            ELSE IF c = <<".", ".">>
                 THEN Walk(Tail(comps),
                           IF at = <<>> THEN at ELSE SubSeq(at, 1, Len(at) - 1))
            ELSE IF Append(at, c) \notin DOMAIN fs THEN Missing
            ELSE IF fs[Append(at, c)].kind = "link"
                 THEN IF fs[Append(at, c)].content \in DOMAIN fs
                      THEN Walk(Tail(comps), fs[Append(at, c)].content)
                      ELSE Missing
            ELSE Walk(Tail(comps), Append(at, c))

\* stat(pathname): the node a real path names, if any
sdk_stat(full) ==
    IF full = <<>> THEN Missing
    ELSE Walk(PosixSplit(IF full[1] = "/" THEN Tail(full) ELSE full), <<>>)

\* names of the entries readdir yields for the directory node at: "." and
\* "..", and the nodes the directory holds
DirEntries(at) ==
    {<<".">>, <<".", ".">>}
    \cup {p[Len(p)] : p \in {q \in DOMAIN fs : Len(q) = Len(at) + 1
                                               /\ SubSeq(q, 1, Len(at)) = at}}

-----------------------------------------------------------------------------
(* Backend: SPDB_SDKFileSystem *)

is_directory(path) ==
    LET st == sdk_stat(get_full_path(path))
    IN st.found /\ fs[st.at].kind = "dir"

exists(path) == sdk_stat(get_full_path(path)).found

\* index of the last '/' of path, 0 when there is none (find_last_of)
FindLastSlash(path) ==
    IF \E i \in 1..Len(path) : path[i] = "/"
    THEN CHOOSE i \in 1..Len(path) :
            path[i] = "/" /\ \A j \in (i + 1)..Len(path) : path[j] # "/"
    ELSE 0

mode_to_file_type(kind) ==
    IF kind = "file" THEN "REGULAR_FILE"
    ELSE IF kind = "dir" THEN "DIRECTORY"
    ELSE "UNKNOWN"

\* a std::runtime_error thrown, or the FileInfo returned
get_file_info(path) ==
    LET st == sdk_stat(get_full_path(path))
    IN IF ~st.found
       THEN [thrown |-> TRUE, what |-> "Cannot get file info: " \o Str(path)]
       ELSE [thrown |-> FALSE,
             name |-> SubSeq(path, FindLastSlash(path) + 1, Len(path)),
             type |-> mode_to_file_type(fs[st.at].kind),
             size |-> fs[st.at].size]

\* variant: the length is ignored, the read always goes to the end
read_file_content_at_offset_ToTheEnd(path, offset, length) ==
    LET st == sdk_stat(get_full_path(path))
    IN IF ~st.found
       THEN [thrown |-> TRUE, what |-> "Cannot open file: " \o Str(path),
             fd_open |-> FALSE]
       ELSE LET data == fs[st.at].content
                file_size == Len(data)
            IN IF offset >= file_size
               THEN [thrown |-> TRUE, what |-> "Offset exceeds file size",
                     fd_open |-> FALSE]
               ELSE [thrown |-> FALSE,
                     content |-> SubSeq(data, offset + 1, file_size),
                     fd_open |-> TRUE]

\* read_file_with_fd running the reader of read_file_content_at_offset: an
\* exception thrown or the content returned, and whether the descriptor that
\* read_file_with_fd opened is still open when it is left.  No descriptor
\* exists when open fails; the catch block closes it when the reader throws;
\* when the reader returns, the return statement inside the try block leaves
\* read_file_with_fd and the close after the try block is not reached
read_file_content_at_offset(path, offset, length) ==
    LET st == sdk_stat(get_full_path(path))
    IN IF ~st.found
       THEN [thrown |-> TRUE, what |-> "Cannot open file: " \o Str(path),
             fd_open |-> FALSE]
       ELSE LET data == fs[st.at].content
                file_size == Len(data)
            IN IF offset >= file_size
               THEN [thrown |-> TRUE, what |-> "Offset exceeds file size",
                     fd_open |-> FALSE]
               ELSE LET bytes_to_read ==
                            IF length = 0 \/ length > file_size - offset
                            THEN file_size - offset ELSE length
                    IN [thrown |-> FALSE,
                        content |-> SubSeq(data, offset + 1, offset + bytes_to_read),
                        fd_open |-> TRUE]

read_file_content(path, max_size) == read_file_content_at_offset(path, 0, max_size)

\* what change_directory returns and the current directory it leaves
\* variant: the path as typed must name something as well, so every
\* component that ".." cancels is looked up
change_directory_ChecksTypedPath(path) ==
    LET new_path == resolve_path(path)
        typed == IF path # <<>> /\ path[1] = "/" THEN root_path_ \o Tail(path)
                 ELSE root_path_ \o Tail(current_path_) \o <<"/">> \o path
    IN IF ~is_safe_path(new_path) THEN [ok |-> FALSE, cur |-> current_path_]
       ELSE IF is_directory(new_path) /\ sdk_stat(typed).found
       THEN [ok |-> TRUE, cur |-> new_path]
       ELSE [ok |-> FALSE, cur |-> current_path_]

\* variant: the argument is stored, not the resolved path
change_directory_StoresArgument(path) ==
    LET new_path == resolve_path(path)
    IN IF ~is_safe_path(new_path) THEN [ok |-> FALSE, cur |-> current_path_]
       ELSE IF is_directory(new_path) THEN [ok |-> TRUE, cur |-> path]
       ELSE [ok |-> FALSE, cur |-> current_path_]

\* variant: the resolved path is stored before it is known to be a directory
change_directory_StoresBeforeCheck(path) ==
    LET new_path == resolve_path(path)
    IN IF ~is_safe_path(new_path) THEN [ok |-> FALSE, cur |-> current_path_]
       ELSE [ok |-> is_directory(new_path), cur |-> new_path]

change_directory(path) ==
    LET new_path == resolve_path(path)
    IN IF ~is_safe_path(new_path) THEN [ok |-> FALSE, cur |-> current_path_]
       ELSE IF is_directory(new_path) THEN [ok |-> TRUE, cur |-> new_path]
       ELSE [ok |-> FALSE, cur |-> current_path_]

\* the characters of the model's names in ascending byte order
CharOrder == <<".", "/", "B", "a", "b", "r">>

CharCode(c) == CHOOSE i \in 1..Len(CharOrder) : CharOrder[i] = c

\* variant: the names are compared as a locale collates them, capitals after
\* their small letters
StrLess_Collated(a, b) ==
    LET Collation == <<".", "/", "a", "b", "B", "r">>
        rank(c) == CHOOSE i \in 1..Len(Collation) : Collation[i] = c
    IN \E k \in 0..Len(a) :
        /\ k <= Len(b)
        /\ \A j \in 1..k : a[j] = b[j]
        /\ IF k = Len(a) THEN Len(b) > k
           ELSE k < Len(b) /\ rank(a[k + 1]) < rank(b[k + 1])

\* a.name < b.name of std::string: byte-wise lexicographic order
StrLess(a, b) ==
    \E k \in 0..Len(a) :
        /\ k <= Len(b)
        /\ \A j \in 1..k : a[j] = b[j]
        /\ IF k = Len(a) THEN Len(b) > k
           ELSE k < Len(b) /\ CharCode(a[k + 1]) < CharCode(b[k + 1])

RECURSIVE SortByName(_)
\* std::sort of the FileInfo records by name
SortByName(infos) ==
    IF infos = {} THEN <<>>
    ELSE LET m == CHOOSE x \in infos : \A y \in infos \ {x} : StrLess(x.name, y.name)
         IN <<m>> \o SortByName(infos \ {m})

\* the path list_directory hands to get_file_info for entry d_name
EntryPath(path, d_name) ==
    IF path = <<>> \/ path = <<".">> THEN d_name ELSE path \o <<"/">> \o d_name

\* the entries of the readdir loop that are not skipped
ListedEntries(at) == {d \in DirEntries(at) : d # <<".">> /\ d # <<".", ".">>}

list_directory(path) ==
    LET st == sdk_stat(get_full_path(path))
    IN IF ~st.found \/ fs[st.at].kind # "dir" THEN <<>>
       ELSE SortByName(
              {[get_file_info(EntryPath(path, n)) EXCEPT !.name = n] :
                 n \in {d \in ListedEntries(st.at) :
                          ~get_file_info(EntryPath(path, d)).thrown}})

\* the real paths list_directory hands to the storage layer
list_directory_paths(path) ==
    LET st == sdk_stat(get_full_path(path))
    IN {get_full_path(path)} \cup
       (IF ~st.found \/ fs[st.at].kind # "dir" THEN {}
        ELSE {get_full_path(EntryPath(path, n)) : n \in ListedEntries(st.at)})

RECURSIVE calculate_directory_size_recursive(_)
\* opendir, then for every entry but "." and ".." a stat of full_path + "/" +
\* d_name: a directory is descended into, anything else adds st_size, and an
\* entry whose stat fails adds nothing
calculate_directory_size_recursive(path) ==
    LET full_path == get_full_path(path)
        dir == sdk_stat(full_path)
        RECURSIVE ReaddirLoop(_)
        ReaddirLoop(entries) ==
            IF entries = {} THEN 0
            ELSE LET d_name == CHOOSE d \in entries : TRUE
                     st == sdk_stat(full_path \o <<"/">> \o d_name)
                     total_size == ReaddirLoop(entries \ {d_name})
                 IN IF ~st.found THEN total_size
                    ELSE IF fs[st.at].kind = "dir"
                    THEN total_size
                         + calculate_directory_size_recursive(path \o <<"/">> \o d_name)
                    ELSE total_size + fs[st.at].size
    IN IF ~dir.found \/ fs[dir.at].kind # "dir" THEN 0
       ELSE ReaddirLoop(ListedEntries(dir.at))

get_file_type_string(type) ==
    IF type = "REGULAR_FILE" THEN "regular file"
    ELSE IF type = "DIRECTORY" THEN "directory"
    ELSE "unknown"

-----------------------------------------------------------------------------
(* Content classifier of the client *)

InspectWindow == 512
BinaryPercent == 30

\* length of the UTF-8 sequence the lead byte c announces, 0 when c is no lead
Utf8Len(c) ==
    IF c \in 192..223 THEN 2
    ELSE IF c \in 224..239 THEN 3
    ELSE IF c \in 240..247 THEN 4
    ELSE 0

RECURSIVE TextScanTo(_, _, _, _, _)
\* the while loop of is_text_file from index i (0-based) with the count so
\* far, followed until the index reaches stop: whether it returned at a NUL
\* byte, non_printable and the index where it stands
TextScanTo(content, total, stop, i, non_printable) ==
    IF i >= stop THEN [nul |-> FALSE, non_printable |-> non_printable, i |-> i]
    ELSE LET c == content[i + 1]
         IN IF c = 0 THEN [nul |-> TRUE, non_printable |-> non_printable, i |-> i]
            ELSE IF c < 32
                 THEN TextScanTo(content, total, stop, i + 1,
                        IF c \notin {9, 10, 13} THEN non_printable + 1
                        ELSE non_printable)
            ELSE IF c >= 128
                 THEN IF Utf8Len(c) = 0
                      THEN TextScanTo(content, total, stop, i + 1, non_printable + 1)
                      ELSE LET valid ==
                                 \A j \in 1..(Utf8Len(c) - 1) :
                                     (i + j < total) => content[i + j + 1] \in 128..191
                           IN TextScanTo(content, total, stop, i + Utf8Len(c),
                                IF ~valid THEN non_printable + 1 ELSE non_printable)
            ELSE TextScanTo(content, total, stop, i + 1, non_printable)

RECURSIVE TextScan(_, _, _, _)
\* the whole loop, followed 32 indexes at a time: whether it returned at a
\* NUL byte, and non_printable when it was left
TextScan(content, total, i, non_printable) ==
    IF i >= total THEN [nul |-> FALSE, non_printable |-> non_printable]
    ELSE LET part == TextScanTo(content, total,
                                IF i + 32 < total THEN i + 32 ELSE total,
                                i, non_printable)
         IN IF part.nul THEN [nul |-> TRUE, non_printable |-> part.non_printable]
            ELSE TextScan(content, total, part.i, part.non_printable)

\* total: the number of bytes is_text_file inspects
WindowLen(content) ==
    IF Len(content) < InspectWindow THEN Len(content) ELSE InspectWindow

\* variant: binary only above the percentage, not at it
is_text_file_ThresholdExclusive(content) ==
    IF content = <<>> THEN TRUE
    ELSE LET scan == TextScan(content, WindowLen(content), 0, 0)
         IN ~scan.nul
            /\ (scan.non_printable * 100) \div WindowLen(content) <= BinaryPercent

is_text_file(content) ==
    IF content = <<>> THEN TRUE
    ELSE LET scan == TextScan(content, WindowLen(content), 0, 0)
         IN ~scan.nul
            /\ (scan.non_printable * 100) \div WindowLen(content) < BinaryPercent

-----------------------------------------------------------------------------
(* Rendering helpers of the client *)

\* the printable ASCII characters, byte 32 first (the grave accent, byte 96,
\* is written <96>: a string of the module cannot hold it)
AsciiPrintable ==
    <<" ", "!", "\"", "#", "$", "%", "&", "'", "(", ")", "*", "+", ",", "-", ".", "/",
      "0", "1", "2", "3", "4", "5", "6", "7", "8", "9", ":", ";", "<", "=", ">", "?",
      "@", "A", "B", "C", "D", "E", "F", "G", "H", "I", "J", "K", "L", "M", "N", "O",
      "P", "Q", "R", "S", "T", "U", "V", "W", "X", "Y", "Z", "[", "\\", "]", "^", "_",
      "<96>", "a", "b", "c", "d", "e", "f", "g", "h", "i", "j", "k", "l", "m", "n", "o",
      "p", "q", "r", "s", "t", "u", "v", "w", "x", "y", "z", "{", "|", "}", "~">>

\* std::isprint in the C locale
IsPrint(b) == b \in 32..126

\* the character a byte of a std::string is; an unprintable byte other than
\* tab, newline and carriage return is written <n>
ByteChr(b) ==
    IF IsPrint(b) THEN AsciiPrintable[b - 31]
    ELSE IF b = 9 THEN "\t"
    ELSE IF b = 10 THEN "\n"
    ELSE IF b = 13 THEN "\r"
    ELSE "<" \o ToString(b) \o ">"

RECURSIVE BytesStr(_)
\* the std::string holding the bytes of content
BytesStr(content) ==
    IF content = <<>> THEN "" ELSE ByteChr(content[1]) \o BytesStr(Tail(content))

RECURSIVE Spaces(_)
Spaces(n) == IF n <= 0 THEN "" ELSE " " \o Spaces(n - 1)

RECURSIVE NumDigits(_)
NumDigits(n) == IF n < 10 THEN 1 ELSE 1 + NumDigits(n \div 10)

\* operator<< of an unsigned value after std::setw(w), fill ' '
SetW(w, n) == Spaces(w - NumDigits(n)) \o ToString(n)

HexDigits == <<"0", "1", "2", "3", "4", "5", "6", "7",
               "8", "9", "a", "b", "c", "d", "e", "f">>

RECURSIVE HexStr(_)
HexStr(n) == IF n < 16 THEN HexDigits[n + 1]
             ELSE HexStr(n \div 16) \o HexDigits[(n % 16) + 1]

RECURSIVE HexLen(_)
HexLen(n) == IF n < 16 THEN 1 ELSE 1 + HexLen(n \div 16)

RECURSIVE Zeros(_)
Zeros(n) == IF n <= 0 THEN "" ELSE "0" \o Zeros(n - 1)

\* std::hex << std::setfill('0') << std::setw(8) << n
Hex8(n) == Zeros(8 - HexLen(n)) \o HexStr(n)

RECURSIVE Bits(_, _)
\* the bits of byte from position bit down to 0
Bits(byte, bit) ==
    LET d == ToString((byte \div (2 ^ bit)) % 2)
    IN IF bit = 0 THEN d ELSE d \o Bits(byte, bit - 1)

BytesPerLine == 8

RECURSIVE DumpSlots(_, _, _)
\* the byte fields of one line from slot i on: [bin, ascii]
DumpSlots(content, line_offset, i) ==
    IF i >= BytesPerLine THEN [bin |-> "", ascii |-> ""]
    ELSE LET rest == DumpSlots(content, line_offset, i + 1)
         IN IF line_offset + i < Len(content)
            THEN LET byte == content[line_offset + i + 1]
                 IN [bin |-> Bits(byte, 7) \o " " \o rest.bin,
                     ascii |-> (IF IsPrint(byte) THEN ByteChr(byte) ELSE ".")
                               \o rest.ascii]
            ELSE [bin |-> "         " \o rest.bin, ascii |-> " " \o rest.ascii]

RECURSIVE DumpLines_RelativeLabel(_, _, _)
\* variant: the label of a line is its offset in the bytes read
DumpLines_RelativeLabel(content, file_offset, line_offset) ==
    IF line_offset >= Len(content) THEN ""
    ELSE LET slots == DumpSlots(content, line_offset, 0)
         IN Hex8(line_offset) \o ": " \o slots.bin \o " "
            \o slots.ascii \o "\n"
            \o DumpLines_RelativeLabel(content, file_offset,
                                       line_offset + BytesPerLine)

RECURSIVE DumpLines(_, _, _)
\* the render loop of cmd_hexdump from line_offset on
DumpLines(content, file_offset, line_offset) ==
    IF line_offset >= Len(content) THEN ""
    ELSE LET slots == DumpSlots(content, line_offset, 0)
         IN Hex8(file_offset + line_offset) \o ": " \o slots.bin \o " "
            \o slots.ascii \o "\n"
            \o DumpLines(content, file_offset, line_offset + BytesPerLine)

\* A size_t handed to format_file_size is written [m, e] for m * 1024^e, with
\* m below 2^31; the double size_d holds m * 1024^(e - unit_idx) exactly.

RECURSIVE UnitLoop(_, _, _)
\* variant: the loop goes on while size_d > 1024.0
UnitLoop_Above(m, e, unit_idx) ==
    LET x == e - unit_idx
        size_d_above_1024 == IF x >= 1 THEN m >= 1
                             ELSE IF x >= -2 THEN m > 1024 ^ (1 - x)
                             ELSE FALSE
    IN IF size_d_above_1024 /\ unit_idx < 4 THEN UnitLoop(m, e, unit_idx + 1)
       ELSE unit_idx

\* the while loop of format_file_size: unit_idx when it is left
UnitLoop(m, e, unit_idx) ==
    LET x == e - unit_idx
        size_d_at_least_1024 == IF x >= 1 THEN m >= 1
                                ELSE IF x >= -2 THEN m >= 1024 ^ (1 - x)
                                ELSE FALSE
    IN IF size_d_at_least_1024 /\ unit_idx < 4 THEN UnitLoop(m, e, unit_idx + 1)
       ELSE unit_idx

\* operator<< of the double m * 1024^x after std::fixed and
\* std::setprecision(1): the nearest tenth, the even one of two that are
\* equally near
Fixed1(m, x) ==
    IF x >= 0 THEN ToString(m * (1024 ^ x)) \o ".0"
    ELSE LET D == 1024 ^ (0 - x)
             q0 == (m * 10) \div D
             r == (m * 10) % D
             q == IF 2 * r > D \/ (2 * r = D /\ q0 % 2 = 1) THEN q0 + 1 ELSE q0
         IN ToString(q \div 10) \o "." \o ToString(q % 10)

format_file_size(size, human_readable) ==
    IF ~human_readable THEN ToString(size.m * (1024 ^ size.e))
    ELSE LET unit_idx == UnitLoop(size.m, size.e, 0)
         IN IF unit_idx = 0 THEN ToString(size.m * (1024 ^ size.e)) \o "B"
            ELSE Fixed1(size.m, size.e - unit_idx)
                 \o <<"B", "KB", "MB", "GB", "TB">>[unit_idx + 1]

\* the MIME type of the table for a lower-cased extension, "" when unknown
MimeOf(ext) ==
    CASE ext = <<"t", "x", "t">> -> "text/plain"
      [] ext \in {<<"c", "p", "p">>, <<"c", "c">>, <<"c">>} -> "text/x-c++src"
      [] ext \in {<<"h">>, <<"h", "p", "p">>} -> "text/x-c++hdr"
      [] ext = <<"p", "y">> -> "text/x-python"
      [] ext = <<"j", "s">> -> "text/javascript"
      [] ext = <<"h", "t", "m", "l">> -> "text/html"
      [] ext = <<"c", "s", "s">> -> "text/css"
      [] ext = <<"j", "s", "o", "n">> -> "application/json"
      [] ext = <<"x", "m", "l">> -> "application/xml"
      [] ext = <<"p", "d", "f">> -> "application/pdf"
      [] ext \in {<<"j", "p", "g">>, <<"j", "p", "e", "g">>} -> "image/jpeg"
      [] ext = <<"p", "n", "g">> -> "image/png"
      [] ext = <<"g", "i", "f">> -> "image/gif"
      [] ext = <<"z", "i", "p">> -> "application/zip"
      [] ext = <<"t", "a", "r">> -> "application/x-tar"
      [] ext = <<"g", "z">> -> "application/gzip"
      [] OTHER -> ""

\* index of the last '.' of filename, 0 when there is none
FindLastDot(filename) ==
    IF \E i \in 1..Len(filename) : filename[i] = "."
    THEN CHOOSE i \in 1..Len(filename) :
            filename[i] = "." /\ \A j \in (i + 1)..Len(filename) : filename[j] # "."
    ELSE 0

\* the characters of the model are lower-case already, ::tolower keeps them
get_file_mime_type(filename) ==
    IF FindLastDot(filename) = 0 THEN ""
    ELSE MimeOf(SubSeq(filename, FindLastDot(filename) + 1, Len(filename)))

-----------------------------------------------------------------------------
(* Command handlers of FileClient.  A handler yields the CommandResult     *)
(* (ok, message), the current directory it leaves (cur), the real paths it *)
(* handed to the storage layer (acc), the backend operations it invoked    *)
(* (calls) and the number of descriptors it opened and left open (fds).    *)

Done(ok, message, paths, ops) ==
    [ok |-> ok, message |-> message, cur |-> current_path_,
     acc |-> {get_full_path(p) : p \in paths}, calls |-> ops, fds |-> 0]

\* the result r of a handler that made the read rd
AfterRead(r, rd) == [r EXCEPT !.fds = IF rd.fd_open THEN 1 ELSE 0]

RECURSIVE LastNonFlag(_, _)
\* the argument loop of cmd_ls and cmd_du: every argument not starting with
\* '-' overwrites target_path
LastNonFlag(args, target) ==
    IF args = <<>> THEN target
    ELSE LastNonFlag(Tail(args), IF args[1][1] # "-" THEN args[1] ELSE target)

HasArg(args, flag) == \E i \in 1..Len(args) : args[i] = flag

RECURSIVE LsShort(_)
LsShort(files) ==
    IF files = <<>> THEN "" ELSE Str(files[1].name) \o "  " \o LsShort(Tail(files))

LsLongLine(info) ==
    Str(info.name) \o " " \o SetW(10, info.size) \o " " \o "byte" \o " "
    \o get_file_type_string(info.type)

RECURSIVE LsLong(_)
LsLong(files) ==
    IF files = <<>> THEN "" ELSE LsLongLine(files[1]) \o "\n" \o LsLong(Tail(files))

cmd_ls(args) ==
    LET long_format == HasArg(args, <<"-", "l">>)
        target_path == LastNonFlag(args, <<".">>)
        resolved_path == resolve_path(target_path)
    IN IF ~exists(resolved_path)
       THEN Done(FALSE, "Path does not exist: " \o Str(target_path),
                 {resolved_path}, {"resolve_path", "exists"})
       ELSE IF ~is_directory(resolved_path)
       THEN LET info == get_file_info(resolved_path)
            IN Done(TRUE, IF long_format THEN LsLongLine(info) ELSE Str(info.name),
                    {resolved_path},
                    {"resolve_path", "exists", "is_directory", "get_file_info"})
       ELSE LET files == list_directory(resolved_path)
                r == Done(TRUE,
                          IF files = <<>> THEN "Directory is empty"
                          ELSE IF long_format THEN LsLong(files)
                          ELSE LsShort(files) \o "\n",
                          {resolved_path},
                          {"resolve_path", "exists", "is_directory", "list_directory"})
            IN [r EXCEPT !.acc = @ \cup list_directory_paths(resolved_path)]

\* cmd_du: get_directory_size(resolved_path, true) for a directory and
\* get_file_size for anything else
cmd_du(args) ==
    LET human_readable == HasArg(args, <<"-", "h">>)
        target_path == LastNonFlag(args, <<".">>)
        resolved_path == resolve_path(target_path)
    IN IF ~exists(resolved_path)
       THEN Done(FALSE, "Path does not exist: " \o Str(target_path),
                 {resolved_path}, {"resolve_path", "exists"})
       ELSE LET size == IF is_directory(resolved_path)
                        THEN calculate_directory_size_recursive(resolved_path)
                        ELSE fs[sdk_stat(get_full_path(resolved_path)).at].size
            IN Done(TRUE,
                    format_file_size([m |-> size, e |-> 0], human_readable)
                    \o "\t" \o Str(target_path),
                    {resolved_path},
                    {"resolve_path", "exists", "is_directory",
                     IF is_directory(resolved_path) THEN "get_directory_size"
                     ELSE "get_file_size"})

cmd_file(args) ==
    IF args = <<>> THEN Done(FALSE, "Usage: file <filename>", {}, {})
    ELSE LET filename == args[1]
             resolved_path == resolve_path(filename)
         IN IF ~exists(resolved_path)
            THEN Done(FALSE, "File does not exist: " \o Str(filename),
                      {resolved_path}, {"resolve_path", "exists"})
            ELSE LET info == get_file_info(resolved_path)
                     head == Str(filename) \o ": " \o get_file_type_string(info.type)
                     rd == read_file_content(resolved_path, 1024)
                     mime_type == get_file_mime_type(filename)
                 IN IF info.type # "REGULAR_FILE"
                    THEN Done(TRUE, head, {resolved_path},
                              {"resolve_path", "exists", "get_file_info"})
                    ELSE AfterRead(
                           Done(TRUE,
                              IF rd.thrown THEN head \o ", cannot read content"
                              ELSE head
                                   \o (IF is_text_file(rd.content) THEN ", text file"
                                       ELSE ", binary file")
                                   \o (IF mime_type # "" THEN " (" \o mime_type \o ")"
                                       ELSE ""),
                              {resolved_path},
                              {"resolve_path", "exists", "get_file_info",
                               "read_file_content"}), rd)

cmd_stat(args) ==
    IF args = <<>> THEN Done(FALSE, "Usage: stat <filename>", {}, {})
    ELSE LET filename == args[1]
             resolved_path == resolve_path(filename)
         IN IF ~exists(resolved_path)
            THEN Done(FALSE, "File does not exist: " \o Str(filename),
                      {resolved_path}, {"resolve_path", "exists"})
            ELSE IF is_directory(resolved_path)
            THEN Done(FALSE, Str(filename) \o " is a directory",
                      {resolved_path}, {"resolve_path", "exists", "is_directory"})
            ELSE LET info == get_file_info(resolved_path)
                 IN Done(TRUE,
                         "File: " \o Str(filename) \o "\n"
                         \o "Type: " \o get_file_type_string(info.type) \o "\n"
                         \o "Size: " \o ToString(info.size) \o " bytes\n",
                         {resolved_path},
                         {"resolve_path", "exists", "is_directory", "get_file_info"})

MaxCatBytes == 1024 * 1024

\* variant: the content is returned without asking is_text_file
cmd_cat_NoClassifier(args) ==
    IF args = <<>> THEN Done(FALSE, "Usage: cat <filename>", {}, {})
    ELSE LET filename == args[1]
             resolved_path == resolve_path(filename)
         IN IF ~exists(resolved_path)
            THEN Done(FALSE, "File does not exist: " \o Str(filename),
                      {resolved_path}, {"resolve_path", "exists"})
            ELSE IF is_directory(resolved_path)
            THEN Done(FALSE, Str(filename) \o " is a directory, cannot display content",
                      {resolved_path}, {"resolve_path", "exists", "is_directory"})
            ELSE LET rd == read_file_content(resolved_path, MaxCatBytes)
                     ops == {"resolve_path", "exists", "is_directory",
                             "read_file_content"}
                 IN AfterRead(
                      IF rd.thrown
                      THEN Done(FALSE, "Error: " \o rd.what, {resolved_path}, ops)
                      ELSE IF rd.content = <<>>
                      THEN Done(TRUE, "File is empty", {resolved_path}, ops)
                      ELSE Done(TRUE, BytesStr(rd.content), {resolved_path}, ops), rd)

\* variant: the read is made outside the try block
cmd_cat_NoCatch(args) ==
    IF args = <<>> THEN Done(FALSE, "Usage: cat <filename>", {}, {})
    ELSE LET filename == args[1]
             resolved_path == resolve_path(filename)
         IN IF ~exists(resolved_path)
            THEN Done(FALSE, "File does not exist: " \o Str(filename),
                      {resolved_path}, {"resolve_path", "exists"})
            ELSE IF is_directory(resolved_path)
            THEN Done(FALSE, Str(filename) \o " is a directory, cannot display content",
                      {resolved_path}, {"resolve_path", "exists", "is_directory"})
            ELSE LET rd == read_file_content(resolved_path, MaxCatBytes)
                     ops == {"resolve_path", "exists", "is_directory",
                             "read_file_content"}
                 IN IF rd.thrown THEN rd
                    ELSE AfterRead(
                      IF rd.content = <<>>
                      THEN Done(TRUE, "File is empty", {resolved_path}, ops)
                      ELSE IF ~is_text_file(rd.content)
                      THEN Done(FALSE, Str(filename) \o " is a binary file, cannot display",
                                {resolved_path}, ops)
                      ELSE Done(TRUE, BytesStr(rd.content), {resolved_path}, ops), rd)

cmd_cat(args) ==
    IF args = <<>> THEN Done(FALSE, "Usage: cat <filename>", {}, {})
    ELSE LET filename == args[1]
             resolved_path == resolve_path(filename)
         IN IF ~exists(resolved_path)
            THEN Done(FALSE, "File does not exist: " \o Str(filename),
                      {resolved_path}, {"resolve_path", "exists"})
            ELSE IF is_directory(resolved_path)
            THEN Done(FALSE, Str(filename) \o " is a directory, cannot display content",
                      {resolved_path}, {"resolve_path", "exists", "is_directory"})
            ELSE LET rd == read_file_content(resolved_path, MaxCatBytes)
                     ops == {"resolve_path", "exists", "is_directory",
                             "read_file_content"}
                 IN AfterRead(
                      IF rd.thrown
                      THEN Done(FALSE, "Error: " \o rd.what, {resolved_path}, ops)
                      ELSE IF rd.content = <<>>
                      THEN Done(TRUE, "File is empty", {resolved_path}, ops)
                      ELSE IF ~is_text_file(rd.content)
                      THEN Done(FALSE, Str(filename) \o " is a binary file, cannot display",
                                {resolved_path}, ops)
                      ELSE Done(TRUE, BytesStr(rd.content), {resolved_path}, ops), rd)

AccessDenied(target_path) ==
    "Access denied: Cannot navigate above the root directory ("
    \o Str(target_path)
    \o ").\nCurrent root directory restricts access to its subdirectories only."

\* variant: cd without an argument stays where it is
cmd_cd_DefaultsToDot(args) ==
    LET target_path == IF args # <<>> THEN args[1] ELSE <<".">>
        cd == change_directory(target_path)
    IN IF is_trying_to_escape_root(target_path)
       THEN Done(FALSE, AccessDenied(target_path), {}, {"is_trying_to_escape_root"})
       ELSE [ok |-> cd.ok,
             message |-> IF cd.ok THEN ""
                         ELSE "Cannot change to directory: " \o Str(target_path),
             cur |-> cd.cur,
             acc |-> {get_full_path(resolve_path(target_path))},
             calls |-> {"is_trying_to_escape_root", "change_directory"},
             fds |-> 0]

cmd_cd(args) ==
    LET target_path == IF args # <<>> THEN args[1] ELSE <<"/">>
        cd == change_directory(target_path)
    IN IF is_trying_to_escape_root(target_path)
       THEN Done(FALSE, AccessDenied(target_path), {}, {"is_trying_to_escape_root"})
       ELSE [ok |-> cd.ok,
             message |-> IF cd.ok THEN ""
                         ELSE "Cannot change to directory: " \o Str(target_path),
             cur |-> cd.cur,
             acc |-> {get_full_path(resolve_path(target_path))},
             calls |-> {"is_trying_to_escape_root", "change_directory"},
             fds |-> 0]

get_current_directory == current_path_

cmd_pwd(args) == Done(TRUE, Str(get_current_directory), {}, {"get_current_directory"})

DecDigits == <<"0", "1", "2", "3", "4", "5", "6", "7", "8", "9">>

IsDigit(c) == \E i \in 1..Len(DecDigits) : DecDigits[i] = c

DigitVal(c) == (CHOOSE i \in 1..Len(DecDigits) : DecDigits[i] = c) - 1

RECURSIVE DigitsValue(_, _)
\* the value of the leading decimal digits of s, continuing from v
DigitsValue(s, v) ==
    IF s = <<>> \/ ~IsDigit(s[1]) THEN v
    ELSE DigitsValue(Tail(s), v * 10 + DigitVal(s[1]))

\* size_t is narrowed to 30 bits: every size of the model is far below
SizeModulus == 2 ^ 30

\* std::stoull(s): an optional sign, then the longest run of digits; no digit
\* throws std::invalid_argument; a '-' negates the value modulo the width
stoull(s) ==
    LET signed == s # <<>> /\ s[1] \in {"+", "-"}
        body == IF signed THEN Tail(s) ELSE s
        v == DigitsValue(body, 0)
    IN IF body = <<>> \/ ~IsDigit(body[1]) THEN [thrown |-> TRUE, value |-> 0]
       ELSE [thrown |-> FALSE,
             value |-> IF signed /\ s[1] = "-"
                       THEN (SizeModulus - v) % SizeModulus ELSE v]

OptOffset == <<"-", "o", "f", "f", "s", "e", "t">>
OptLen == <<"-", "l", "e", "n">>

RECURSIVE HexdumpArgs(_, _, _)
\* the argument loop of cmd_hexdump from index i (1-based) in state st
HexdumpArgs(args, i, st) ==
    IF i > Len(args) THEN st
    ELSE IF args[i] = OptOffset /\ i + 1 <= Len(args)
    THEN IF stoull(args[i + 1]).thrown
         THEN [st EXCEPT !.bad = "Invalid offset value: " \o Str(args[i + 1])]
         ELSE HexdumpArgs(args, i + 2,
                          [st EXCEPT !.file_offset = stoull(args[i + 1]).value])
    ELSE IF args[i] = OptLen /\ i + 1 <= Len(args)
    THEN IF stoull(args[i + 1]).thrown
         THEN [st EXCEPT !.bad = "Invalid length value: " \o Str(args[i + 1])]
         ELSE HexdumpArgs(args, i + 2,
                          [st EXCEPT !.read_length = stoull(args[i + 1]).value])
    ELSE IF args[i][1] # "-"
    THEN HexdumpArgs(args, i + 1, [st EXCEPT !.filename = args[i]])
    ELSE HexdumpArgs(args, i + 1, st)

HexdumpUsage == "Usage: hexdump [-offset N] [-len N] <filename>"

cmd_hexdump(args) ==
    IF args = <<>> THEN Done(FALSE, HexdumpUsage, {}, {})
    ELSE LET st == HexdumpArgs(args, 1,
                     [file_offset |-> 0, read_length |-> 0, filename |-> <<>>,
                      bad |-> ""])
             resolved_path == resolve_path(st.filename)
             max_read_length ==
                 IF st.read_length = 0 \/ st.read_length > MaxCatBytes
                 THEN MaxCatBytes ELSE st.read_length
             rd == IF st.file_offset > 0 \/ st.read_length > 0
                   THEN read_file_content_at_offset(resolved_path, st.file_offset,
                                                    max_read_length)
                   ELSE read_file_content(resolved_path, MaxCatBytes)
             ops == {"resolve_path", "exists", "is_directory",
                     IF st.file_offset > 0 \/ st.read_length > 0
                     THEN "read_file_content_at_offset" ELSE "read_file_content"}
         IN IF st.bad # "" THEN Done(FALSE, st.bad, {}, {})
            ELSE IF st.filename = <<>> THEN Done(FALSE, HexdumpUsage, {}, {})
            ELSE IF ~exists(resolved_path)
            THEN Done(FALSE, "File does not exist: " \o Str(st.filename),
                      {resolved_path}, {"resolve_path", "exists"})
            ELSE IF is_directory(resolved_path)
            THEN Done(FALSE, Str(st.filename) \o " is a directory, cannot hexdump",
                      {resolved_path}, {"resolve_path", "exists", "is_directory"})
            ELSE AfterRead(
                   IF rd.thrown
                   THEN Done(FALSE, "Error: " \o rd.what, {resolved_path}, ops)
                   ELSE IF rd.content = <<>>
                   THEN Done(TRUE, "No data to display (file empty or offset beyond file size)",
                             {resolved_path}, ops)
                   ELSE Done(TRUE, DumpLines(rd.content, st.file_offset, 0),
                             {resolved_path}, ops), rd)

HelpText ==
    "File Client Tool - Available Commands:\n\n"
    \o "Directory Operations:\n"
    \o "  ls [path]          List directory contents\n"
    \o "  ls -l [path]       List detailed directory contents (permissions, size, time)\n"
    \o "  cd [path]          Change directory\n"
    \o "  pwd                Show current directory\n\n"
    \o "File Information:\n"
    \o "  file <filename>    Show file type\n"
    \o "  stat <filename>    Show detailed file information\n"
    \o "File Content:\n"
    \o "  cat <filename>     Display file content\n"
    \o "  hexdump <filename> Display hexadecimal dump of file\n\n"
    \o "    hexdump -len -offset <filename>"
    \o "Other:\n"
    \o "  help               Show this help message\n"
    \o "  exit/quit          Exit the program\n\n"
    \o "Note: Access is restricted to the specified root directory"

cmd_help(args) == Done(TRUE, HelpText, {}, {})

-----------------------------------------------------------------------------
(* Dispatcher *)

Whitespace == {" ", "\t"}

RECURSIVE parse_command(_)
\* the tokens operator>> extracts: maximal runs of non-whitespace characters
parse_command(command_line) ==
    IF command_line = <<>> THEN <<>>
    ELSE IF command_line[1] \in Whitespace THEN parse_command(Tail(command_line))
    ELSE LET i == FindFirstOf(command_line, Whitespace)
         IN IF i = 0 THEN <<command_line>>
            ELSE <<SubSeq(command_line, 1, i - 1)>>
                 \o parse_command(SubSeq(command_line, i, Len(command_line)))

W_ls == <<"l", "s">>
W_file == <<"f", "i", "l", "e">>
W_stat == <<"s", "t", "a", "t">>
W_du == <<"d", "u">>
W_cat == <<"c", "a", "t">>
W_cd == <<"c", "d">>
W_pwd == <<"p", "w", "d">>
W_hexdump == <<"h", "e", "x", "d", "u", "m", "p">>
W_help == <<"h", "e", "l", "p">>
W_qmark == <<"?">>
W_exit == <<"e", "x", "i", "t">>
W_quit == <<"q", "u", "i", "t">>

\* the keys of command_map
CommandMapKeys == {W_ls, W_file, W_stat, W_cat, W_cd, W_pwd, W_hexdump, W_help, W_qmark}

\* the handler command_map holds for cmd, applied to args
CommandMapCall(cmd, args) ==
    CASE cmd = W_ls -> cmd_ls(args)
      [] cmd = W_file -> cmd_file(args)
      [] cmd = W_stat -> cmd_stat(args)
      [] cmd = W_cat -> cmd_cat(args)
      [] cmd = W_cd -> cmd_cd(args)
      [] cmd = W_pwd -> cmd_pwd(args)
      [] cmd = W_hexdump -> cmd_hexdump(args)
      [] cmd \in {W_help, W_qmark} -> cmd_help(args)

\* variant: exit and quit are recognised only when nothing follows them
execute_command_ExitAlone(command_line) ==
    LET tokens == parse_command(command_line)
        cmd == tokens[1]
        args == Tail(tokens)
    IN IF command_line = <<>> THEN Done(TRUE, "", {}, {})
       ELSE IF tokens = <<>> THEN Done(TRUE, "", {}, {})
       ELSE IF (cmd = W_exit \/ cmd = W_quit) /\ args = <<>>
            THEN Done(FALSE, "exit", {}, {})
       ELSE IF cmd \in CommandMapKeys THEN CommandMapCall(cmd, args)
       ELSE Done(FALSE, "Unknown command: " \o Str(cmd)
                        \o ", use 'help' for available commands", {}, {})

execute_command(command_line) ==
    LET tokens == parse_command(command_line)
        cmd == tokens[1]
        args == Tail(tokens)
    IN IF command_line = <<>> THEN Done(TRUE, "", {}, {})
       ELSE IF tokens = <<>> THEN Done(TRUE, "", {}, {})
       ELSE IF cmd = W_exit \/ cmd = W_quit THEN Done(FALSE, "exit", {}, {})
       ELSE IF cmd \in CommandMapKeys THEN CommandMapCall(cmd, args)
       ELSE Done(FALSE, "Unknown command: " \o Str(cmd)
                        \o ", use 'help' for available commands", {}, {})

-----------------------------------------------------------------------------
(* The trees and the inputs of the model *)

SegR == <<"r">>
SegA == <<"a">>
SegB == <<"b">>

\* the bytes of "exit" and of "hi\n", a buffer of control bytes, the empty file
ExitBytes == <<101, 120, 105, 116>>
TextBytes == <<104, 105, 10>>
BinaryBytes == <<1, 2, 97>>
FileContents == {<<>>, ExitBytes, TextBytes, BinaryBytes}

DirNode == [kind |-> "dir", content |-> <<>>, size |-> 0]
FileNode(content) == [kind |-> "file", content |-> content, size |-> Len(content)]

\* the real tree: the root of the session is /r, which holds the directories
\* a and a/b and the regular files a/a and b; /b and /b/a lie outside the root
TreeWith(content) ==
    (<<>> :> DirNode) @@ (<<SegB>> :> DirNode) @@ (<<SegB, SegA>> :> FileNode(TextBytes))
    @@ (<<SegR>> :> DirNode) @@ (<<SegR, SegA>> :> DirNode)
    @@ (<<SegR, SegA, SegB>> :> DirNode)
    @@ (<<SegR, SegA, SegA>> :> FileNode(TextBytes))
    @@ (<<SegR, SegB>> :> FileNode(content))

\* the same tree with five files in the directory a/b of the root
TreeOfNames ==
    (<<SegR, SegA, SegB, <<"b">>>> :> FileNode(<<>>))
    @@ (<<SegR, SegA, SegB, <<"a", "b">>>> :> FileNode(TextBytes))
    @@ (<<SegR, SegA, SegB, <<"B">>>> :> FileNode(ExitBytes))
    @@ (<<SegR, SegA, SegB, <<".", "a">>>> :> FileNode(<<>>))
    @@ (<<SegR, SegA, SegB, <<"a">>>> :> FileNode(BinaryBytes))
    @@ TreeWith(TextBytes)

\* the root directory given on the command line
RootArgs == {<<"/", "r">>, <<"/", "r", "/">>}

\* the default root directory of main
DefaultRoot == <<"/", "m", "y", "s", "q", "l", "/", "d", "a", "t", "a">>

\* mkdir(pathname) of the storage layer: whether it makes a directory, and
\* where; it does when nothing has the name and the parent is a directory
sdk_mkdir(pathname) ==
    LET comps == SelectSeq(PosixSplit(pathname), LAMBDA c : c # <<>>)
        parent == Walk(SubSeq(comps, 1, Len(comps) - 1), <<>>)
    IN IF comps # <<>> /\ ~sdk_stat(pathname).found
          /\ parent.found /\ fs[parent.at].kind = "dir"
       THEN [ok |-> TRUE, at |-> Append(parent.at, comps[Len(comps)])]
       ELSE [ok |-> FALSE, at |-> <<>>]

\* the constructor: realpath of the root argument; when it cannot be
\* resolved, realpath of the directory mkdir makes of it, the argument
\* itself when mkdir fails; then a '/' appended unless it ends with one
ConstructRoot(root_path) ==
    LET st == sdk_stat(root_path)
        abs == IF st.found THEN <<"/">> \o JoinWith(st.at, "/")
               ELSE IF sdk_mkdir(root_path).ok
               THEN <<"/">> \o JoinWith(sdk_mkdir(root_path).at, "/")
               ELSE root_path
    IN IF abs[Len(abs)] # "/" THEN abs \o <<"/">> ELSE abs

\* the tree the constructor leaves
ConstructTree(root_path) ==
    IF ~sdk_stat(root_path).found /\ sdk_mkdir(root_path).ok
    THEN (sdk_mkdir(root_path).at :> DirNode) @@ fs
    ELSE fs

\* the raw path arguments a user types: every non-empty string over '/', '.'
\* and the name a up to the bound, and some that use the name b
TypedChars == {"/", ".", "a"}

ExtraPaths == {<<"b">>, <<"a", "/", "b">>, <<"/", "a", "/", "b">>, <<"/", "b">>,
               <<".", ".", "/", "b">>, <<".", ".", "/", ".", ".", "/", "b">>,
               <<"b", "/", ".", ".">>, <<"b", "/", ".", ".", "/", "a">>,
               <<".", "/", "b">>, <<"b", "/">>, <<"a", "b">>}

PathArgs == (StringsUpTo(TypedChars, MaxPathLen) \ {<<>>}) \cup ExtraPaths

FewPaths == {<<"a">>, <<"b">>, <<".", ".">>, <<"/">>}

OptL == <<"-", "l">>

NumberArgs == {<<"0">>, <<"1">>, <<"2">>, <<"9">>, <<"x">>, <<"1", "x">>, <<"-", "1">>}

NoArgs == {<<>>}
OneArg == {<<p>> : p \in PathArgs}
FewArg == {<<p>> : p \in FewPaths}
TwoArgs == {<<p, q>> : p \in FewPaths, q \in FewPaths}
LsArgs == NoArgs \cup OneArg \cup TwoArgs \cup {<<OptL>>}
          \cup {<<OptL, p>> : p \in FewPaths} \cup {<<p, OptL>> : p \in FewPaths}
HexdumpArgLists ==
    NoArgs \cup OneArg
    \cup {<<OptOffset, n, p>> : n \in NumberArgs, p \in {<<"b">>, <<"a">>}}
    \cup {<<OptLen, n, p>> : n \in NumberArgs, p \in {<<"b">>}}
    \cup {<<p, OptOffset, n, OptLen, m>> :
            p \in {<<"b">>}, n \in {<<"1">>, <<"x">>}, m \in {<<"2">>, <<"x">>}}
    \cup {<<OptOffset>>, <<OptLen>>, <<OptOffset, <<"1">>>>}

RECURSIVE SpaceJoin(_)
\* the tokens, each preceded by one blank
SpaceJoin(args) ==
    IF args = <<>> THEN <<>> ELSE <<" ">> \o args[1] \o SpaceJoin(Tail(args))

\* command lines made of a command word and arguments; a few of them with
\* blanks or a tab before the word and after the last token
LinesOf(words, arglists) ==
    {w \o SpaceJoin(a) : w \in words, a \in arglists}
    \cup {<<" ", "\t">> \o w \o SpaceJoin(a) \o <<" ">> :
            w \in words, a \in arglists \cap (NoArgs \cup FewArg)}

\* first tokens that are no command of the table
UnknownWords == {W_du, <<"l">>, W_exit \o <<"1">>, <<"L", "S">>, <<"c", "d", "a">>}

BlankLines == {<<>>, <<" ">>, <<" ", " ">>, <<"\t">>}

-----------------------------------------------------------------------------
(* The interactive session: run_interactive around execute_command *)

NoResult == [ok |-> TRUE, message |-> ""]

NoOut == [op |-> "none", r1 |-> <<>>, r2 |-> <<>>]

Init ==
    /\ \/ \E c \in FileContents : fs = TreeWith(c)
       \/ fs = TreeOfNames
    /\ \E r \in RootArgs : root_path_ = ConstructRoot(r)
    /\ current_path_ = <<"/">>
    /\ pc = "prompt"
    /\ input = <<>>
    /\ result = NoResult
    /\ accessed = {}
    /\ calls = {}
    /\ err_out = ""
    /\ std_out = ""
    /\ raw = <<>>
    /\ out = NoOut

\* run_interactive receives r from execute_command: a CommandResult, or an
\* exception that left a handler; run_interactive has no try block, so the
\* loop is left through the exception
Deliver(r) ==
    IF "thrown" \in DOMAIN r
    THEN /\ pc' = "aborted"
         /\ UNCHANGED <<result, current_path_, accessed, calls>>
    ELSE /\ pc' = "executed"
         /\ result' = [ok |-> r.ok, message |-> r.message]
         /\ current_path_' = r.cur
         /\ accessed' = r.acc
         /\ calls' = r.calls

\* std::getline delivers command_line and execute_command runs on it
Execute(command_line) ==
    /\ pc = "prompt"
    /\ input' = command_line
    /\ Deliver(execute_command(command_line))
    /\ UNCHANGED <<root_path_, fs, err_out, std_out, raw, out>>

Ls == \E l \in LinesOf({W_ls}, LsArgs) : Execute(l)
File == \E l \in LinesOf({W_file}, NoArgs \cup OneArg) : Execute(l)
Stat == \E l \in LinesOf({W_stat}, NoArgs \cup OneArg) : Execute(l)
Cat == \E l \in LinesOf({W_cat}, NoArgs \cup OneArg \cup TwoArgs) : Execute(l)
Cd == \E l \in LinesOf({W_cd}, NoArgs \cup OneArg \cup TwoArgs) : Execute(l)
Pwd == \E l \in LinesOf({W_pwd}, NoArgs \cup FewArg) : Execute(l)
Hexdump == \E l \in LinesOf({W_hexdump}, HexdumpArgLists) : Execute(l)
Help == \E l \in LinesOf({W_help, W_qmark}, NoArgs \cup FewArg) :
            Execute(l)
Exit == \E l \in LinesOf({W_exit, W_quit}, NoArgs \cup FewArg) :
            Execute(l)
Unknown == \E l \in LinesOf(UnknownWords, NoArgs \cup FewArg) : Execute(l)
Blank == \E l \in BlankLines : Execute(l)

\* variant: the result of std::getline is not looked at, execute_command
\* runs on the empty line
EndOfInput_NotChecked == Execute(<<>>)

\* std::getline fails: end of input
EndOfInput ==
    /\ pc = "prompt"
    /\ pc' = "stopped"
    /\ std_out' = "Goodbye!\n"
    /\ UNCHANGED <<root_path_, current_path_, fs, input, result, accessed, calls,
                   err_out, raw, out>>

\* the rest of the loop body after execute_command returned
Report ==
    /\ pc = "executed"
    /\ err_out' = IF ~result.ok THEN "Error: " \o result.message \o "\n" ELSE ""
    /\ IF result.message = "exit"
       THEN /\ pc' = "stopped"
            /\ std_out' = "Goodbye!\n"
       ELSE /\ pc' = "printed"
            /\ std_out' = (IF result.message # "" THEN result.message \o "\n" ELSE "")
                          \o "\n"
    /\ UNCHANGED <<root_path_, current_path_, fs, input, result, accessed, calls,
                   raw, out>>

\* the next iteration begins: the prompt is printed, the locals of the last
\* iteration are dead
Prompt ==
    /\ pc = "printed"
    /\ pc' = "prompt"
    /\ input' = <<>>
    /\ result' = NoResult
    /\ accessed' = {}
    /\ calls' = {}
    /\ err_out' = ""
    /\ std_out' = ""
    /\ UNCHANGED <<root_path_, current_path_, fs, raw, out>>

Next ==
    \/ Ls \/ File \/ Stat \/ Cat \/ Cd \/ Pwd \/ Hexdump \/ Help \/ Exit
    \/ Unknown \/ Blank \/ EndOfInput \/ Report \/ Prompt

Spec == Init /\ [][Next]_vars

-----------------------------------------------------------------------------
(* The interactive loop on a given standard input: raw holds the lines not  *)
(* read yet. The process is one thread that takes its next step whenever it  *)
(* has one, and std::getline returns at once on input that is all there: the *)
(* loop does not halt at the prompt, after execute_command or after a report. *)

\* std::getline delivers the next line of standard input
ReadLine ==
    /\ pc = "prompt"
    /\ raw # <<>>
    /\ input' = Head(raw)
    /\ raw' = Tail(raw)
    /\ Deliver(execute_command(Head(raw)))
    /\ UNCHANGED <<root_path_, fs, err_out, std_out, out>>

SpecStdin ==
    /\ raw \in StringsUpTo({W_pwd, W_cd \o <<" ", "a">>, W_cat \o <<" ", "b">>,
                            W_exit, W_quit \o <<" ", "b">>, <<>>}, MaxStdinLines)
    /\ fs = TreeWith(ExitBytes)
    /\ root_path_ = ConstructRoot(<<"/", "r">>)
    /\ current_path_ = <<"/">>
    /\ pc = "prompt"
    /\ input = <<>>
    /\ result = NoResult
    /\ accessed = {}
    /\ calls = {}
    /\ err_out = ""
    /\ std_out = ""
    /\ out = NoOut
    /\ [][ReadLine \/ (raw = <<>> /\ EndOfInput) \/ Report \/ Prompt]_vars
    /\ WF_pc(\/ pc = "prompt" /\ pc' \in {"executed", "aborted", "stopped"}
             \/ pc = "executed" /\ pc' \in {"printed", "stopped"}
             \/ pc = "printed" /\ pc' = "prompt")

------------------------------------------------------------------------------
(* The path functions alone: a raw string and a current directory are      *)
(* drawn, then normalize_path, resolve_path and get_full_path are applied. *)

\* current directories the backend can hold
CurDirs == {<<"/">>, <<"/", "a">>, <<"/", "a", "/", "b">>}

RawStrings == StringsUpTo(PathChars, MaxNormLen)

InitPath ==
    /\ raw \in RawStrings
    /\ current_path_ \in CurDirs
    /\ out = NoOut
    /\ fs = TreeWith(<<>>)
    /\ root_path_ = ConstructRoot(<<"/", "r">>)
    /\ pc = "path"
    /\ input = <<>>
    /\ result = NoResult
    /\ accessed = {}
    /\ calls = {}
    /\ err_out = ""
    /\ std_out = ""

PathFrame == UNCHANGED <<root_path_, current_path_, fs, pc, input, result,
                         accessed, calls, err_out, std_out, raw>>

Normalize ==
    /\ out.op = "none"
    /\ current_path_ = <<"/">>
    /\ out' = [op |-> "normalize", r1 |-> normalize_path(raw), r2 |-> <<>>]
    /\ PathFrame

NormalizeAgain ==
    /\ out.op = "normalize"
    /\ out' = [out EXCEPT !.op = "normalize2", !.r2 = normalize_path(out.r1)]
    /\ PathFrame

Resolve ==
    /\ out.op = "none"
    /\ out' = [op |-> "resolve", r1 |-> resolve_path(raw), r2 |-> <<>>]
    /\ PathFrame

FullPath ==
    /\ out.op = "none"
    /\ out' = [op |-> "full", r1 |-> get_full_path(raw), r2 |-> <<>>]
    /\ PathFrame

SpecPath == InitPath /\ [][Normalize \/ NormalizeAgain \/ Resolve \/ FullPath]_vars

-----------------------------------------------------------------------------
(* is_text_file alone, on buffers chosen byte by byte *)

\* a NUL, a control byte, a line feed, a letter, a continuation byte, the
\* lead bytes of 2, 3 and 4 byte sequences, a byte that is no lead byte
BufBytes == {0, 1, 10, 97, 128, 195, 226, 240, 255}

TailBytes == {0, 1, 97, 128, 195, 226}

\* n letters
Filling(n) == [i \in 1..n |-> 97]

\* fillings that end before, at and after the end of the inspected window,
\* and one of seven letters
FillLens == {7, InspectWindow - 4, InspectWindow - 3, InspectWindow - 2,
             InspectWindow - 1, InspectWindow}

TextBuffers ==
    StringsUpTo(BufBytes, MaxBufLen)
    \cup {Filling(n) \o t : n \in FillLens, t \in StringsUpTo(TailBytes, MaxTailLen)}

InitText ==
    /\ raw \in TextBuffers
    /\ current_path_ = <<"/">>
    /\ out = NoOut
    /\ fs = TreeWith(<<>>)
    /\ root_path_ = ConstructRoot(<<"/", "r">>)
    /\ pc = "text"
    /\ input = <<>>
    /\ result = NoResult
    /\ accessed = {}
    /\ calls = {}
    /\ err_out = ""
    /\ std_out = ""

\* is_text_file(raw) is called: r1 is what it returns, r2 its locals when the
\* loop is left
Classify ==
    /\ pc = "text"
    /\ out.op = "none"
    /\ out' = [op |-> "is_text", r1 |-> is_text_file(raw),
               r2 |-> TextScan(raw, WindowLen(raw), 0, 0)]
    /\ PathFrame

SpecText == InitText /\ [][Classify]_vars

-----------------------------------------------------------------------------
(* The render loop of cmd_hexdump alone *)

\* letters with a line feed at every fifth place, and bytes of every kind
DumpBuffers ==
    {[i \in 1..n |-> IF i % 5 = 0 THEN 10 ELSE 64 + i] : n \in 1..MaxDumpLen}
    \cup {[i \in 1..n |-> (i * 37) % 256] : n \in 1..MaxDumpLen}

\* file offsets of the first byte read
DumpOffsets == {0, 1, 7, 8, 9, 255, 4096}

InitDump ==
    /\ raw \in DumpBuffers
    /\ current_path_ = <<"/">>
    /\ out = NoOut
    /\ fs = TreeWith(<<>>)
    /\ root_path_ = ConstructRoot(<<"/", "r">>)
    /\ pc = "dump"
    /\ input = <<>>
    /\ result = NoResult
    /\ accessed = {}
    /\ calls = {}
    /\ err_out = ""
    /\ std_out = ""

\* the render loop runs on the bytes raw read at file_offset: r1 is the
\* text it builds, r2 the file_offset
Render ==
    /\ pc = "dump"
    /\ out.op = "none"
    /\ \E file_offset \in DumpOffsets :
          out' = [op |-> "dump", r1 |-> DumpLines(raw, file_offset, 0),
                  r2 |-> file_offset]
    /\ PathFrame

SpecDump == InitDump /\ [][Render]_vars

-----------------------------------------------------------------------------
(* The descriptors of the process: commands run one after the other, out.r2 *)
(* counts the descriptors that the backend opened and has not closed.       *)

InitFd ==
    /\ \E c \in FileContents : fs = TreeWith(c)
    /\ root_path_ = ConstructRoot(<<"/", "r">>)
    /\ current_path_ = <<"/">>
    /\ pc = "fd"
    /\ input = <<>>
    /\ out = [op |-> "none", r1 |-> NoResult, r2 |-> 0]
    /\ result = NoResult
    /\ accessed = {}
    /\ calls = {}
    /\ err_out = ""
    /\ std_out = ""
    /\ raw = <<>>

\* execute_command has returned r: the descriptors it left open stay open
Account(r) ==
    /\ out' = [op |-> "command", r1 |-> [ok |-> r.ok, message |-> r.message],
               r2 |-> out.r2 + r.fds]
    /\ current_path_' = r.cur

\* a command that reads a file or a directory, or a cd, is run
RunCommand ==
    /\ pc = "fd"
    /\ out.r2 < MaxOpenFds
    /\ \E l \in LinesOf({W_cat, W_file, W_hexdump, W_ls, W_stat, W_cd}, FewArg)
                \cup LinesOf({W_hexdump},
                             {<<OptOffset, n, <<"b">>>> : n \in {<<"1">>, <<"9">>}}) :
          input' = l /\ Account(execute_command(l))
    /\ UNCHANGED <<root_path_, fs, pc, result, accessed, calls, err_out, std_out, raw>>

SpecFd == InitFd /\ [][RunCommand]_vars

-----------------------------------------------------------------------------
(* The program from main on: the root directory argument is checked, the   *)
(* backend is constructed on it, run_interactive runs and main returns;    *)
(* raw is root_directory, out.r2 the exit code.                            *)

InitMain ==
    /\ raw \in {<<>>, DefaultRoot, <<"/", "r">>, <<"/", "a">>,
                 <<"/", "a", "/", "b">>, <<"/", "b", "/", "a", "/", "b">>}
    /\ \E c \in FileContents : fs = TreeWith(c)
    /\ root_path_ = <<>>
    /\ current_path_ = <<>>
    /\ pc = "main"
    /\ input = <<>>
    /\ out = NoOut
    /\ result = NoResult
    /\ accessed = {}
    /\ calls = {}
    /\ err_out = ""
    /\ std_out = ""

\* main up to the first prompt of run_interactive
Startup ==
    /\ pc = "main"
    /\ IF raw = <<>>
       THEN /\ pc' = "exited"
            /\ out' = [op |-> "exit", r1 |-> <<>>, r2 |-> 1]
            /\ err_out' = "Error: Root directory cannot be empty\n"
            /\ UNCHANGED <<root_path_, current_path_, fs, std_out>>
       ELSE /\ pc' = "prompt"
            /\ root_path_' = ConstructRoot(raw)
            /\ fs' = ConstructTree(raw)
            /\ current_path_' = <<"/">>
            /\ err_out' = "Starting SPDB SDK File Client...\n"
                          \o "Root directory: " \o Str(raw) \o "\n"
                          \o "----------------------------------------\n"
            /\ std_out' = "File Client Tool started (Root directory: "
                          \o Str(ConstructRoot(raw)) \o ")\n"
                          \o "Type 'help' for available commands, 'exit' to quit\n\n"
            /\ UNCHANGED out
    /\ UNCHANGED <<input, result, accessed, calls, raw>>

\* run_interactive has returned, or an exception has left it: main returns
ReturnFromMain ==
    /\ pc \in {"stopped", "aborted"}
    /\ pc' = "exited"
    /\ out' = [op |-> "exit", r1 |-> <<>>, r2 |-> IF pc = "stopped" THEN 0 ELSE 1]
    /\ UNCHANGED <<root_path_, current_path_, fs, input, result, accessed, calls,
                   err_out, std_out, raw>>

SpecMain ==
    InitMain /\ [][Startup \/ Pwd \/ Exit \/ Blank \/ EndOfInput \/ Report \/ Prompt
                   \/ ReturnFromMain]_vars

-----------------------------------------------------------------------------
(* cmd_du, which command_map does not hold, and format_file_size alone *)

\* the tree with three symbolic links in the directory a/b of the root: b to
\* the directory /b, a to the regular file /r/b and r to /r/r, which does not
\* exist; the size of a link is the length of the path it holds
TreeWithLinks(content) ==
    LET LinkNode(target) == [kind |-> "link", content |-> target,
                             size |-> 2 * Len(target)]
    IN (<<SegR, SegA, SegB, SegB>> :> LinkNode(<<SegB>>))
       @@ (<<SegR, SegA, SegB, SegA>> :> LinkNode(<<SegR, SegB>>))
       @@ (<<SegR, SegA, SegB, SegR>> :> LinkNode(<<SegR, SegR>>))
       @@ TreeWith(content)

InitDu ==
    /\ \E c \in FileContents : fs = TreeWith(c) \/ fs = TreeWithLinks(c)
    /\ root_path_ = ConstructRoot(<<"/", "r">>)
    /\ current_path_ \in CurDirs
    /\ pc = "du"
    /\ input = <<>>
    /\ out = NoOut
    /\ result = NoResult
    /\ accessed = {}
    /\ calls = {}
    /\ err_out = ""
    /\ std_out = ""
    /\ raw = <<>>

\* format_file_size is called on the size m * 1024^e, a value of size_t;
\* without human_readable only on sizes below 2^31
FormatSize ==
    /\ pc = "du"
    /\ out.op = "none"
    /\ \E m \in {0, 1, 5, 15, 512, 1000, 1023, 1024, 1025, 1075, 1280, 1536, 3840,
                  10188, 1048524, 1048525, 1048575, 1048576, 104857600},
          e \in 0..MaxSizeExp, human_readable \in BOOLEAN :
          /\ m = 0 => e = 0
          /\ \/ e <= 3 \/ (e = 4 /\ m < 2 ^ 24)
             \/ (e = 5 /\ m < 2 ^ 14) \/ (e = 6 /\ m < 2 ^ 4)
          /\ \/ human_readable \/ e = 0 \/ (e = 1 /\ m < 2 ^ 21)
             \/ (e = 2 /\ m < 2 ^ 11)
          /\ out' = [op |-> "format",
                     r1 |-> format_file_size([m |-> m, e |-> e], human_readable),
                     r2 |-> [m |-> m, e |-> e, human_readable |-> human_readable]]
    /\ PathFrame

\* cmd_du is called with args: r1 is the CommandResult, r2 the arguments
Du ==
    /\ pc = "du"
    /\ out.op = "none"
    /\ \E args \in NoArgs \cup FewArg \cup TwoArgs \cup {<<<<"-", "h">>>>}
                   \cup {<<<<"-", "h">>, p>> : p \in FewPaths}
                   \cup {<<p, <<"-", "h">>>> : p \in FewPaths} :
          out' = [op |-> "du", r1 |-> cmd_du(args), r2 |-> args]
    /\ PathFrame

SpecDu == InitDu /\ [][FormatSize \/ Du]_vars

-----------------------------------------------------------------------------
(* Properties *)

HasPrefix(s, p) == Len(s) >= Len(p) /\ SubSeq(s, 1, Len(p)) = p

\* the segments of a path between '/' characters; none for the empty path
Segments(p) == IF p = <<>> THEN <<>> ELSE PosixSplit(p)

NoSpecialSegment(p) ==
    \A i \in 1..Len(Segments(p)) :
        Segments(p)[i] \notin {<<>>, <<".">>, <<".", ".">>}

\* the tokens of the line the last command was given
Tokens == parse_command(input)

\* C1: every real path a command hands to the storage layer is root_path_
\* followed by a normalized relative path: root_path_ is a prefix of it, no
\* segment after the prefix is "..", "." or empty, and the node it names, if
\* any, lies in the tree below the root directory
C1_Confinement ==
    \A p \in accessed :
        /\ HasPrefix(p, root_path_)
        /\ NoSpecialSegment(SubSeq(p, Len(root_path_) + 1, Len(p)))
        /\ sdk_stat(p).found => HasPrefix(sdk_stat(p).at, sdk_stat(root_path_).at)

\* cat ../../b typed in /a: two ".." segments, of which one climbs above the
\* root, and the file read is b of the root directory
C1_Witness ==
    /\ pc = "executed"
    /\ current_path_ = <<"/", "a">>
    /\ input = W_cat \o <<" ", ".", ".", "/", ".", ".", "/", "b">>
    /\ accessed = {<<"/", "r", "/", "b">>}
    /\ "read_file_content" \in calls

RECURSIVE ClimbsFrom(_, _)
\* following comps from depth levels below the root, some ".." is met at
\* the root itself
ClimbsFrom(comps, depth) ==
    IF comps = <<>> THEN FALSE
    ELSE IF comps[1] \in {<<>>, <<".">>} THEN ClimbsFrom(Tail(comps), depth)
    ELSE IF comps[1] = <<".", ".">>
         THEN depth = 0 \/ ClimbsFrom(Tail(comps), depth - 1)
         ELSE ClimbsFrom(Tail(comps), depth + 1)

\* the path, taken from the directory cur, climbs above the root
ClimbsAboveRoot(path, cur) ==
    ClimbsFrom(Segments(IF path # <<>> /\ path[1] = "/" THEN path
                        ELSE cur \o <<"/">> \o path), 0)

\* the step of the session that runs a cd command with an argument
CdStep ==
    /\ pc = "prompt" /\ pc' = "executed"
    /\ Len(parse_command(input')) >= 2
    /\ parse_command(input')[1] = W_cd

\* C2: a cd whose argument would climb above the root is refused with the
\* Access denied message before change_directory is called, and the current
\* directory stays as it was
C2_EscapeDenied ==
    [][(CdStep /\ ClimbsAboveRoot(parse_command(input')[2], current_path_))
        => /\ result' = [ok |-> FALSE,
                         message |-> AccessDenied(parse_command(input')[2])]
           /\ "change_directory" \notin calls'
           /\ current_path_' = current_path_]_vars

\* C3: the current directory is a normalized virtual path: it starts with
\* '/', has no empty, "." or ".." segment, and ends with '/' only when it is
\* the root
C3_CurrentNormalized ==
    /\ current_path_ # <<>>
    /\ current_path_[1] = "/"
    /\ NoSpecialSegment(Tail(current_path_))
    /\ (current_path_[Len(current_path_)] = "/" => current_path_ = <<"/">>)

\* cd .//b typed in /a has moved the session to /a/b
C3_Witness ==
    /\ pc = "executed"
    /\ Tokens = <<W_cd, <<".", "/", "b">>>>
    /\ result.ok
    /\ current_path_ = <<"/", "a", "/", "b">>

\* C4: the current directory changes only in the step that runs a cd command
\* which succeeds
C4_OnlyCdMoves ==
    [][current_path_' # current_path_
        => /\ pc = "prompt" /\ pc' = "executed"
           /\ parse_command(input') # <<>>
           /\ parse_command(input')[1] = W_cd
           /\ result'.ok]_vars

\* a cd that failed in /a, where it was typed
C4_Witness ==
    /\ pc = "executed"
    /\ Tokens = <<W_cd, <<"a", "a", "a">>>>
    /\ ~result.ok
    /\ result.message = "Cannot change to directory: aaa"
    /\ current_path_ = <<"/", "a">>

\* C5: a cd that succeeds returns the empty message and leaves
\* resolve_path(p) of its argument p (the root when it has none) as the
\* current directory, which no later step but a cd changes and which pwd
\* returns with ok; cd a from / gives /a, cd .. from /a gives /, cd alone
\* gives /
C5_CdThenPwd ==
    [][/\ (pc = "prompt" /\ pc' = "executed" /\ parse_command(input') # <<>>
           /\ parse_command(input')[1] = W_cd /\ result'.ok)
          => /\ result'.message = ""
             /\ current_path_' =
                  IF Len(parse_command(input')) >= 2
                  THEN resolve_path(parse_command(input')[2]) ELSE <<"/">>
             /\ (current_path_ = <<"/">> /\ input' = W_cd \o <<" ", "a">>
                   => current_path_' = <<"/", "a">>)
             /\ (current_path_ = <<"/", "a">> /\ input' = W_cd \o <<" ", ".", ".">>
                   => current_path_' = <<"/">>)
             /\ (input' = W_cd => current_path_' = <<"/">>)
       /\ (pc = "prompt" /\ pc' = "executed" /\ parse_command(input') # <<>>
           /\ parse_command(input')[1] = W_pwd)
          => /\ result' = [ok |-> TRUE, message |-> Str(current_path_)]
             /\ current_path_' = current_path_
       /\ (pc # "prompt" => current_path_' = current_path_)]_vars

\* pwd answers /a/b after a cd
C5_Witness ==
    /\ pc = "executed"
    /\ Tokens = <<W_pwd>>
    /\ result = [ok |-> TRUE, message |-> "/a/b"]

\* C6: normalize_path is idempotent: normalizing the result of normalize_path
\* gives that result again, for every raw path
C6_NormalizeIdempotent ==
    out.op = "normalize2" => out.r2 = out.r1

\* a/b/.. normalizes to /a, and /a to itself
C6_Witness ==
    /\ out.op = "normalize2"
    /\ raw = <<"a", "/", "b", "/", ".", ".">>
    /\ out.r1 = <<"/", "a">>
    /\ out.r2 = <<"/", "a">>

\* every segment of the path is empty, "." or ".."
OnlySpecialSegments(p) ==
    \A i \in 1..Len(Segments(p)) :
        Segments(p)[i] \in {<<>>, <<".">>, <<".", ".">>}

\* C7: the result of normalize_path starts with '/' and has no ".", ".." or
\* empty segment; a ".." with nothing to pop is dropped, so a path of only
\* "..", "." and empty segments gives "/" and ../a, /../a and a/../b give
\* /a, /a and /b; the empty input gives "/"
C7_NormalizeShape ==
    out.op = "normalize" =>
        /\ out.r1 # <<>>
        /\ out.r1[1] = "/"
        /\ NoSpecialSegment(Tail(out.r1))
        /\ (raw = <<>> => out.r1 = <<"/">>)
        /\ (OnlySpecialSegments(raw) => out.r1 = <<"/">>)
        /\ (raw \in {<<".", ".", "/", "a">>, <<"/", ".", ".", "/", "a">>}
              => out.r1 = <<"/", "a">>)
        /\ (raw = <<"a", "/", ".", ".", "/", "b">> => out.r1 = <<"/", "b">>)

\* ../a/. normalizes to /a: the ".." had nothing to pop
C7_Witness ==
    /\ out.op = "normalize"
    /\ raw = <<".", ".", "/", "a", "/", ".">>
    /\ out.r1 = <<"/", "a">>

\* C8: resolve_path(raw) is the current directory when raw is empty,
\* normalize_path(raw) when raw starts with '/', whatever the current
\* directory, and otherwise normalize_path of the current directory, a '/'
\* unless the current directory is "/", and raw
C8_ResolveCases ==
    out.op = "resolve" =>
        /\ (raw = <<>> => out.r1 = current_path_)
        /\ (raw # <<>> /\ raw[1] = "/" => out.r1 = normalize_path(raw))
        /\ (raw # <<>> /\ raw[1] # "/" /\ current_path_ = <<"/">>
              => out.r1 = normalize_path(<<"/">> \o raw))
        /\ (raw # <<>> /\ raw[1] # "/" /\ current_path_ # <<"/">>
              => out.r1 = normalize_path(current_path_ \o <<"/">> \o raw))
        /\ (raw = <<"/", "b">> => out.r1 = <<"/", "b">>)
        /\ (raw = <<"b">> /\ current_path_ = <<"/", "a">>
              => out.r1 = <<"/", "a", "/", "b">>)

\* /b resolved in /a/b is /b
C8_Witness ==
    /\ out.op = "resolve"
    /\ current_path_ = <<"/", "a", "/", "b">>
    /\ raw = <<"/", "b">>
    /\ out.r1 = <<"/", "b">>

RECURSIVE SkipBlanks(_)
\* the line without the blanks and tabs it begins with
SkipBlanks(line) ==
    IF line # <<>> /\ line[1] \in {" ", "\t"} THEN SkipBlanks(Tail(line)) ELSE line

RECURSIVE UpToBlank(_)
\* the characters of the line before its first blank or tab
UpToBlank(line) ==
    IF line = <<>> \/ line[1] \in {" ", "\t"} THEN <<>>
    ELSE <<line[1]>> \o UpToBlank(Tail(line))

\* the first whitespace-separated token of the line, empty when it has none
FirstToken(line) == UpToBlank(SkipBlanks(line))

ExitSentinel == [ok |-> FALSE, message |-> "exit"]

\* C9: execute_command returns (false, "exit") exactly when the first
\* whitespace-separated token of the line is exit or quit, whatever follows
\* it and whatever the files hold; the empty line returns (true, "")
C9_ExitSentinel ==
    pc = "executed" =>
        /\ result = ExitSentinel <=> FirstToken(input) \in {W_exit, W_quit}
        /\ (input = <<>> => result = [ok |-> TRUE, message |-> ""])

\* quit followed by an argument, after blanks, returned the sentinel
C9_Witness ==
    /\ pc = "executed"
    /\ input = <<" ", "\t">> \o W_quit \o <<" ", "a", " ">>
    /\ result = ExitSentinel

\* C10: the loop stops after a command exactly when the result of the
\* command is (false, "exit"); a result (true, "exit") does not stop it, and
\* the sentinel is not written to the error stream
C10_StopsOnSentinelOnly ==
    [][pc = "executed"
        => /\ pc' = "stopped" <=> result = ExitSentinel
           /\ (result = ExitSentinel => err_out' = "")]_vars

\* the message of the dispatcher for a first token that is no command
UnknownMessage(cmd) ==
    "Unknown command: " \o Str(cmd) \o ", use 'help' for available commands"

\* the command words of the documented table
TableWords == {W_ls, W_file, W_stat, W_du, W_cat, W_cd, W_pwd, W_hexdump,
               W_help, W_qmark, W_exit, W_quit}

\* C11: a line whose first token is ls, file, stat, du, cat, cd, pwd,
\* hexdump, help, ?, exit or quit is never answered with the Unknown command
\* message; every other first token is answered with (false, "Unknown
\* command: <token>...") and no call of the backend is made
C11_TableRouting ==
    (pc = "executed" /\ FirstToken(input) # <<>>) =>
        IF FirstToken(input) \in TableWords
        THEN result.message # UnknownMessage(FirstToken(input))
        ELSE /\ result = [ok |-> FALSE, message |-> UnknownMessage(FirstToken(input))]
             /\ calls = {}
             /\ accessed = {}

\* the step of the session that runs a command line
ExecStep == pc = "prompt" /\ pc' \in {"executed", "aborted"}

\* the commands that take a path
PathWords == {W_ls, W_file, W_stat, W_cat, W_cd, W_hexdump}

\* the storage node the virtual path argument p names from the current
\* directory
TargetNode(p) == sdk_stat(get_full_path(resolve_path(p)))

IsRegularFile(p) == TargetNode(p).found /\ fs[TargetNode(p).at].kind = "file"

\* the line is a path command with the one argument p, which names nothing
MissingTarget(tokens) ==
    /\ Len(tokens) = 2
    /\ tokens[1] \in PathWords
    /\ tokens[2][1] # "-"
    /\ ~TargetNode(tokens[2]).found

\* the line makes the backend read a regular file at an offset that is not
\* below its size
ReadOutOfRange(tokens) ==
    \/ /\ Len(tokens) = 2
       /\ tokens[1] \in {W_cat, W_file, W_hexdump}
       /\ tokens[2][1] # "-"
       /\ IsRegularFile(tokens[2])
       /\ fs[TargetNode(tokens[2]).at].size = 0
    \/ /\ Len(tokens) = 4
       /\ tokens[1] = W_hexdump
       /\ tokens[2] = OptOffset
       /\ tokens[3] \in {<<"0">>, <<"1">>, <<"2">>, <<"9">>}
       /\ tokens[4][1] # "-"
       /\ IsRegularFile(tokens[4])
       /\ DigitsValue(tokens[3], 0) >= fs[TargetNode(tokens[4]).at].size

OffsetError == [ok |-> FALSE, message |-> "Error: Offset exceeds file size"]

\* the loop goes on after a failure that is not the exit sentinel
ContinuesAfterFailure ==
    /\ (pc = "executed" /\ ~result.ok /\ result # ExitSentinel => pc' = "printed")
    /\ (pc = "printed" => pc' = "prompt")

C13_CatEmptyFile ==
    (/\ pc = "executed"
     /\ Len(Tokens) = 2
     /\ Tokens[1] = W_cat
     /\ IsRegularFile(Tokens[2])
     /\ fs[TargetNode(Tokens[2]).at].size = 0)
        => result = [ok |-> TRUE, message |-> "File is empty"]

\* the bytes of the regular file p names
ContentOf(p) == fs[TargetNode(p).at].content

\* C14: cat succeeds only on an existing regular file, and then its message
\* is "File is empty" for no bytes or the bytes themselves when they are
\* not empty and is_text_file accepts them; for a directory and for bytes
\* is_text_file rejects it fails with a message that names the argument and
\* holds none of the content
C14_CatOnlyText ==
    (pc = "executed" /\ Len(Tokens) >= 2 /\ Tokens[1] = W_cat) =>
        /\ result.ok =>
             /\ IsRegularFile(Tokens[2])
             /\ \/ ContentOf(Tokens[2]) = <<>> /\ result.message = "File is empty"
                \/ /\ ContentOf(Tokens[2]) # <<>>
                   /\ is_text_file(ContentOf(Tokens[2]))
                   /\ result.message = BytesStr(ContentOf(Tokens[2]))
        /\ (TargetNode(Tokens[2]).found /\ ~IsRegularFile(Tokens[2]))
             => result = [ok |-> FALSE,
                          message |-> Str(Tokens[2])
                                      \o " is a directory, cannot display content"]
        /\ (IsRegularFile(Tokens[2]) /\ ~is_text_file(ContentOf(Tokens[2])))
             => result = [ok |-> FALSE,
                          message |-> Str(Tokens[2])
                                      \o " is a binary file, cannot display"]

\* cat ../b typed in /a has printed the text of the file b
C14_Witness ==
    /\ pc = "executed"
    /\ current_path_ = <<"/", "a">>
    /\ Tokens = <<W_cat, <<".", ".", "/", "b">>>>
    /\ ContentOf(Tokens[2]) = TextBytes
    /\ result = [ok |-> TRUE, message |-> "hi\n"]

\* the buffer has a NUL byte among the bytes is_text_file inspects
NulInWindow(content) == \E i \in 1..WindowLen(content) : content[i] = 0

\* C15: is_text_file returns true for the empty buffer and false for every
\* buffer with a 0x00 byte among its first 512 bytes, whatever else it holds
C15_NulIsBinary ==
    out.op = "is_text" =>
        /\ (raw = <<>> => out.r1)
        /\ (NulInWindow(raw) => ~out.r1)

\* the sequence of len bytes that starts at index i (0-based) lies in the
\* first total bytes and every byte after the lead byte is 10xxxxxx
CompleteSequence(content, total, i, len) ==
    /\ i + len <= total
    /\ \A j \in 1..(len - 1) : content[i + j + 1] \in 128..191

\* index (0-based) of the first byte >= 0x80 among the first total bytes
FirstHigh(content, total) ==
    CHOOSE k \in 0..(total - 1) :
        content[k + 1] >= 128 /\ \A j \in 0..(k - 1) : content[j + 1] < 128

\* among the first total bytes there is a byte >= 0x80, and every byte
\* outside the len bytes that start with the first of them is printable ASCII
OneOccurrence(content, total) ==
    /\ \E k \in 0..(total - 1) : content[k + 1] >= 128
    /\ LET k == FirstHigh(content, total)
           len == IF Utf8Len(content[k + 1]) = 0 THEN 1 ELSE Utf8Len(content[k + 1])
       IN \A j \in 0..(total - 1) :
              (j < k \/ j >= k + len) => content[j + 1] \in 32..127

\* C16: in a window whose other bytes are printable ASCII, a byte >= 0x80
\* that is no lead byte counts as one non-printable unit, a lead byte whose
\* continuation bytes are not all in the window and of the form 10xxxxxx
\* counts as one, a sequence cut by the end of the window included, and a
\* complete 2, 3 or 4 byte sequence counts as none
C16_Utf8Units ==
    (out.op = "is_text" /\ OneOccurrence(raw, WindowLen(raw))) =>
        LET k == FirstHigh(raw, WindowLen(raw))
            len == Utf8Len(raw[k + 1])
        IN /\ ~out.r2.nul
           /\ out.r2.non_printable =
                IF len # 0 /\ CompleteSequence(raw, WindowLen(raw), k, len)
                THEN 0 ELSE 1

LineCount(n) == (n + 7) \div 8
PadSlots(n) == (8 - (n % 8)) % 8

RECURSIVE ExpectedSlots(_, _, _)
\* slots i..7 of line k (from 0) of the dump of data, the binary fields and
\* the ASCII panel: a slot is blank exactly when it is one of the last
\* PadSlots of the last line
ExpectedSlots(data, k, i) ==
    IF i > 7 THEN [bin |-> "", ascii |-> ""]
    ELSE LET rest == ExpectedSlots(data, k, i + 1)
             blank == k = LineCount(Len(data)) - 1 /\ i >= 8 - PadSlots(Len(data))
         IN IF blank
            THEN [bin |-> "         " \o rest.bin, ascii |-> " " \o rest.ascii]
            ELSE [bin |-> Bits(data[8 * k + i + 1], 7) \o " " \o rest.bin,
                  ascii |-> (IF data[8 * k + i + 1] \in 32..126
                             THEN ByteChr(data[8 * k + i + 1]) ELSE ".")
                            \o rest.ascii]

RECURSIVE ExpectedDump(_, _, _)
\* lines k.. of the dump of data read at offset o: LineCount lines, line k
\* labelled o + 8k
ExpectedDump(data, o, k) ==
    IF k >= LineCount(Len(data)) THEN ""
    ELSE Hex8(o + 8 * k) \o ": " \o ExpectedSlots(data, k, 0).bin \o " "
         \o ExpectedSlots(data, k, 0).ascii \o "\n"
         \o ExpectedDump(data, o, k + 1)

\* C18: the dump of n > 0 bytes read at offset o has ceil(n/8) lines, line k
\* labelled with o + 8k in 8 hex digits, each with 8 byte slots and an 8
\* character panel, the last (8 - n mod 8) mod 8 slots of the last line
\* blank and no other; one byte gives one line with 7 blank slots
C18_DumpLayout ==
    out.op = "dump" =>
        /\ out.r1 = ExpectedDump(raw, out.r2, 0)
        /\ (raw = <<97>> /\ out.r2 = 0) =>
              out.r1 = "00000000: 01100001 " \o Spaces(63) \o " a" \o Spaces(7) \o "\n"

\* nine bytes read at offset 8: two lines, the second with seven blank slots
C18_Witness ==
    /\ out.op = "dump"
    /\ Len(raw) = 9
    /\ raw[5] = 10
    /\ out.r2 = 8
    /\ LineCount(Len(raw)) = 2
    /\ PadSlots(Len(raw)) = 7
    /\ out.r1 = ExpectedDump(raw, 8, 0)

\* a plain unsigned decimal number: digits only, at least one
IsPlainDecimal(v) == v # <<>> /\ \A i \in 1..Len(v) : v[i] \in {"0", "1", "2", "3", "4", "5", "6", "7", "8", "9"}

\* C19: hexdump given -offset or -len with a value that is not a plain
\* unsigned decimal number fails with "Invalid offset value: <v>" or
\* "Invalid length value: <v>" and calls no operation of the backend
C19_StrictNumbers ==
    (/\ pc = "executed"
     /\ Len(Tokens) = 4
     /\ Tokens[1] = W_hexdump
     /\ Tokens[2] \in {OptOffset, OptLen}
     /\ ~IsPlainDecimal(Tokens[3]))
        => /\ result = [ok |-> FALSE,
                        message |-> (IF Tokens[2] = OptOffset
                                     THEN "Invalid offset value: "
                                     ELSE "Invalid length value: ")
                                    \o Str(Tokens[3])]
           /\ calls = {}
           /\ accessed = {}

\* the forms of a hexdump line with plain decimal values: the file alone,
\* -offset N file, -len N file, file -offset N -len M
HexdumpForm(t) ==
    /\ t # <<>>
    /\ t[1] = W_hexdump
    /\ \/ Len(t) = 2 /\ t[2][1] # "-"
       \/ Len(t) = 4 /\ t[2] \in {OptOffset, OptLen} /\ IsPlainDecimal(t[3])
          /\ t[4][1] # "-"
       \/ Len(t) = 6 /\ t[2][1] # "-" /\ t[3] = OptOffset /\ IsPlainDecimal(t[4])
          /\ t[5] = OptLen /\ IsPlainDecimal(t[6])

HexdumpFile(t) == IF Len(t) = 4 THEN t[4] ELSE t[2]

HexdumpOffset(t) ==
    IF Len(t) = 4 /\ t[2] = OptOffset THEN DigitsValue(t[3], 0)
    ELSE IF Len(t) = 6 THEN DigitsValue(t[4], 0)
    ELSE 0

\* the length given, 0 when none is
HexdumpLength(t) ==
    IF Len(t) = 4 /\ t[2] = OptLen THEN DigitsValue(t[3], 0)
    ELSE IF Len(t) = 6 THEN DigitsValue(t[6], 0)
    ELSE 0

Min3(a, b, c) == CHOOSE m \in {a, b, c} : m <= a /\ m <= b /\ m <= c

\* number of bytes rendered for offset o, length n (0: none) and file size s
WindowBytes(o, n, s) == Min3(IF n # 0 THEN n ELSE s - o, 1024 * 1024, s - o)

\* C20: hexdump with offset o and length n on a regular file of size s with
\* o < s renders exactly the bytes [o, o + k) of the file at offset o, with
\* k = min(n if given and not zero else s - o, 1 MiB, s - o), so that
\* o + k <= s
C20_HexdumpWindow ==
    (pc = "executed" /\ HexdumpForm(Tokens) /\ IsRegularFile(HexdumpFile(Tokens))
     /\ HexdumpOffset(Tokens) < Len(ContentOf(HexdumpFile(Tokens)))) =>
        LET o == HexdumpOffset(Tokens)
            data == ContentOf(HexdumpFile(Tokens))
            k == WindowBytes(o, HexdumpLength(Tokens), Len(data))
        IN /\ o + k <= Len(data)
           /\ result = [ok |-> TRUE,
                        message |-> ExpectedDump(SubSeq(data, o + 1, o + k), o, 0)]

\* hexdump b -offset 1 -len 2 on the four bytes "exit" has rendered "xi"
C20_Witness ==
    /\ pc = "executed"
    /\ Tokens = <<W_hexdump, <<"b">>, OptOffset, <<"1">>, OptLen, <<"2">>>>
    /\ ContentOf(<<"b">>) = ExitBytes
    /\ result = [ok |-> TRUE, message |-> ExpectedDump(<<120, 105>>, 1, 0)]

\* C21: every descriptor a read operation of the backend opens is closed
\* when the operation returns, by its result or by an exception, so that no
\* descriptor is open between two commands
C21_HandlesClosed ==
    pc = "fd" => out.r2 = 0

\* the root directory does not exist and cannot be created, or is empty
Unusable(root_directory) ==
    \/ root_directory = <<>>
    \/ ~sdk_stat(root_directory).found /\ ~sdk_mkdir(root_directory).ok

\* C22: with an unusable root directory main returns 1 without entering the
\* interactive loop; when the loop was left by exit, quit or the end of the
\* input main returns 0
C22_StartupFailure ==
    [][/\ (pc = "main" /\ Unusable(raw)) => (pc' = "exited" /\ out'.r2 = 1)
       /\ (pc = "stopped" => (pc' = "exited" /\ out'.r2 = 0))]_vars

\* floor(log_1024 m) for a positive m below 2^31
Log1024(m) ==
    IF m >= 1024 ^ 3 THEN 3 ELSE IF m >= 1024 ^ 2 THEN 2 ELSE IF m >= 1024 THEN 1 ELSE 0

\* min(4, floor(log_1024 n)) for n = m * 1024^e, 0 for n = 0
UnitIndex(m, e) ==
    IF m = 0 THEN 0 ELSE IF e + Log1024(m) > 4 THEN 4 ELSE e + Log1024(m)

\* the numbers with one fractional digit that are nearest to m * 1024^x
OneDigitTexts(m, x) ==
    IF x >= 0 THEN {ToString(m * (1024 ^ x)) \o ".0"}
    ELSE LET D == 1024 ^ (0 - x)
             below == (m * 10) \div D
         IN {ToString(t \div 10) \o "." \o ToString(t % 10) :
               t \in {u \in {below, below + 1} :
                        /\ 2 * (u * D - m * 10) <= D
                        /\ 2 * (m * 10 - u * D) <= D}}

\* C23: format_file_size(n, false) is n in decimal; format_file_size(n, true)
\* has the unit of index min(4, floor(log_1024 n)) of B, KB, MB, GB, TB; below
\* 1024 it is the integer followed by B, otherwise n / 1024^index with one
\* fractional digit followed by the unit; 0 gives 0B, 1536 gives 1.5KB and,
\* not human readable, 1536
C23_FormatSize ==
    out.op = "format" =>
        LET m == out.r2.m
            e == out.r2.e
            k == UnitIndex(m, e)
        IN /\ ~out.r2.human_readable => out.r1 = ToString(m * (1024 ^ e))
           /\ (out.r2.human_readable /\ k = 0) => out.r1 = ToString(m) \o "B"
           /\ (out.r2.human_readable /\ k > 0) =>
                 out.r1 \in {t \o <<"KB", "MB", "GB", "TB">>[k] :
                               t \in OneDigitTexts(m, e - k)}
           /\ (m = 0 /\ out.r2.human_readable) => out.r1 = "0B"
           /\ (m = 1536 /\ e = 0) =>
                 out.r1 = IF out.r2.human_readable THEN "1.5KB" ELSE "1536"

\* 1024^5 bytes are printed in the last unit: 1024.0TB
C23_Witness ==
    /\ out.op = "format"
    /\ out.r2 = [m |-> 1, e |-> 5, human_readable |-> TRUE]
    /\ out.r1 = "1024.0TB"

\* the byte a character of a name is
ByteOf(c) ==
    CASE c = "." -> 46 [] c = "/" -> 47 [] c = "B" -> 66
      [] c = "a" -> 97 [] c = "b" -> 98 [] c = "r" -> 114

\* the name x comes before the name y in byte order
BytesBefore(x, y) ==
    \E k \in 1..(Len(x) + 1) :
        /\ \A j \in 1..(k - 1) : j <= Len(y) /\ x[j] = y[j]
        /\ IF k = Len(x) + 1 THEN Len(y) >= k
           ELSE k <= Len(y) /\ ByteOf(x[k]) < ByteOf(y[k])

\* the names of the nodes the directory node at holds
NamesIn(at) ==
    {q[Len(q)] : q \in {n \in DOMAIN fs : Len(n) = Len(at) + 1
                                          /\ SubSeq(n, 1, Len(at)) = at}}

\* the names, each once, every name after the names that come before it
Ascending(names) ==
    [i \in 1..Cardinality(names) |->
        CHOOSE x \in names : Cardinality({y \in names : BytesBefore(y, x)}) = i - 1]

RECURSIVE ShortListing(_)
ShortListing(names) ==
    IF names = <<>> THEN ""
    ELSE Str(names[1]) \o "  " \o ShortListing(Tail(names))

RECURSIVE LongListing(_, _)
LongListing(at, names) ==
    IF names = <<>> THEN ""
    ELSE LsLongLine([name |-> names[1], size |-> fs[Append(at, names[1])].size,
                     type |-> IF fs[Append(at, names[1])].kind = "dir"
                              THEN "DIRECTORY" ELSE "REGULAR_FILE"])
         \o "\n" \o LongListing(at, Tail(names))

\* the arguments of the line that do not start with '-'
NonFlags(tokens) == SelectSeq(Tail(tokens), LAMBDA a : a[1] # "-")

\* C24: ls with at most one path argument, on a directory, lists the names
\* the directory holds, without "." and "..", each once and in ascending
\* byte order, one line per entry with -l and joined by blanks otherwise; on
\* a path that does not exist it fails with a message that names the path
\* as it was typed
C24_LsSorted ==
    (pc = "executed" /\ Tokens # <<>> /\ Tokens[1] = W_ls
     /\ Len(NonFlags(Tokens)) <= 1) =>
        LET p == IF NonFlags(Tokens) = <<>> THEN <<".">> ELSE NonFlags(Tokens)[1]
            node == TargetNode(p)
            names == Ascending(NamesIn(node.at))
        IN /\ ~node.found =>
                 result = [ok |-> FALSE,
                           message |-> "Path does not exist: " \o Str(p)]
           /\ (node.found /\ fs[node.at].kind = "dir") =>
                 /\ result.ok
                 /\ result.message =
                      IF names = <<>> THEN "Directory is empty"
                      ELSE IF \E i \in 2..Len(Tokens) : Tokens[i] = OptL
                      THEN LongListing(node.at, names)
                      ELSE ShortListing(names) \o "\n"

\* ls a/b has listed the five files of the directory: .a, B, a, ab, b
C24_Witness ==
    /\ pc = "executed"
    /\ Tokens = <<W_ls, <<"a", "/", "b">>>>
    /\ fs = TreeOfNames
    /\ result = [ok |-> TRUE, message |-> ".a  B  a  ab  b  \n"]

RECURSIVE SumOfSizes(_)
\* the sizes the metadata of the nodes report, directories left out
SumOfSizes(nodes) ==
    IF nodes = {} THEN 0
    ELSE LET n == CHOOSE x \in nodes : TRUE
         IN (IF fs[n].kind = "dir" THEN 0 ELSE fs[n].size)
            + SumOfSizes(nodes \ {n})

\* the nodes below the node at; what a symbolic link names is not among them
Subtree(at) == {n \in DOMAIN fs : Len(n) > Len(at) /\ SubSeq(n, 1, Len(at)) = at}

\* C25: du on a directory returns the sum of the sizes of the regular files
\* below it, to which a symbolic link adds the size of the link itself and
\* nothing of what it names
C25_DuNoFollow ==
    (pc = "du" /\ out.op = "du"
     /\ TargetNode(LastNonFlag(out.r2, <<".">>)).found
     /\ fs[TargetNode(LastNonFlag(out.r2, <<".">>)).at].kind = "dir") =>
        /\ out.r1.ok
        /\ out.r1.message =
             format_file_size(
                 [m |-> SumOfSizes(Subtree(TargetNode(LastNonFlag(out.r2, <<".">>)).at)),
                  e |-> 0],
                 HasArg(out.r2, <<"-", "h">>))
             \o "\t" \o Str(LastNonFlag(out.r2, <<".">>))

\* C26: ls takes the first argument that does not start with '-' as its
\* target, so the line gives what ls gives for its flags and that argument
\* alone; file, stat, cat and hexdump without an argument fail and the
\* session goes on
C26_FirstPathIsTarget ==
    (pc = "executed" /\ Tokens # <<>>) =>
        /\ (Tokens[1] = W_ls /\ NonFlags(Tokens) # <<>>) =>
              LET r == cmd_ls(SelectSeq(Tail(Tokens), LAMBDA a : a[1] = "-")
                              \o <<NonFlags(Tokens)[1]>>)
              IN result = [ok |-> r.ok, message |-> r.message]
        /\ (Tokens[1] = W_ls /\ NonFlags(Tokens) = <<>>) =>
              LET r == cmd_ls(Tail(Tokens) \o <<current_path_>>)
              IN result.ok = r.ok
        /\ (Tokens \in {<<W_file>>, <<W_stat>>, <<W_cat>>, <<W_hexdump>>}) =>
              ~result.ok

\* C27: hexdump of an existing regular file that is empty, or from an offset
\* at or beyond its end, succeeds with the message "No data to display (file
\* empty or offset beyond file size)"
C27_HexdumpNoData ==
    (/\ pc = "executed"
     /\ HexdumpForm(Tokens)
     /\ IsRegularFile(HexdumpFile(Tokens))
     /\ HexdumpOffset(Tokens) >= fs[TargetNode(HexdumpFile(Tokens)).at].size)
        => result = [ok |-> TRUE,
                     message |-> "No data to display (file empty or offset beyond file size)"]

\* C28: on every standard input the loop is left in the end: it is left when
\* a line exit or quit has been executed, whatever follows that line, and when
\* the end of input is found at the prompt, without another line being run
C28_LoopTerminates ==
    /\ <>(pc = "stopped")
    /\ [][/\ (pc = "prompt" /\ raw = <<>>) => pc' = "stopped"
          /\ (pc = "executed" /\ FirstToken(input) \in {W_exit, W_quit})
                => pc' = "stopped"]_vars

\* standard input held cd a and then ended: the loop was left at the prompt
\* that followed the report of cd
C28_Witness ==
    /\ pc = "stopped"
    /\ raw = <<>>
    /\ input = <<>>
    /\ current_path_ = <<"/", "a">>

\* the node of the real tree the current directory names
CurrentNode == sdk_stat(get_full_path(current_path_)).at

C30_CurrentIsDirectory ==
    (pc \in {"prompt", "executed", "printed", "stopped", "aborted"}) =>
        /\ sdk_stat(get_full_path(current_path_)).found
        /\ fs[CurrentNode].kind = "dir"

====
